---- MODULE Spec2Model ----
(***************************************************************************)
(* The port registry of gosiki-os: core/port-manager/PortManager.mjs.      *)
(*                                                                         *)
(* The state is the registry file.  Every PortManager method is one        *)
(* action: it loads the file, scans or edits the loaded object, and saves  *)
(* it (or not), exactly as the method does.  The operating system is an    *)
(* input of each call: the set of ports on which a bind fails during it.   *)
(***************************************************************************)
EXTENDS Integers, Sequences, FiniteSets, TLC

\* How many ports the modelled port universe holds.
MaxPorts == 3
\* How many PortManager calls one behaviour makes.
MaxCalls == 3
\* The largest count handed to allocateGroup.
MaxCount == 2
\* DEFAULT_CONFIG.ports.range.start
PortBase == 3000
\* processes that may listen on ports
MaxPids == 2

Ports == PortBase..(PortBase + MaxPorts - 1)
LastPort == PortBase + MaxPorts - 1

\* The value of a missing property or argument.
Undefined == "<undefined>"

\* range arguments { start, end }: the whole universe, its first port alone,
\* all but its first port, and an empty range (start > end)
Ranges == [start : {PortBase, PortBase + 1}, end : {PortBase, LastPort}]

\* metadata objects (string -> string)
EmptyObject == [k \in {} |-> ""]
Metadatas == {EmptyObject, [app |-> "web"]}
GroupMetadatas == {[app |-> "web"]}

\* roles arguments of allocateGroup
RoleLists == {<<>>, <<"a", "b">>, <<"a", "a">>, <<"port2">>, <<"", "b">>}

VARIABLES
  disk,          \* the registry file at registryPath
  defaultRange,  \* this.defaultRange
  clock,         \* the system clock read by new Date()
  uuids,         \* how many ids randomUUID() has issued
  result,        \* the last call: its arguments, what it returned or threw
  prev,          \* the call before it
  handed,        \* ports returned since the last call that removes records
  sys,           \* the operating system: listening sockets and live processes
  inflight       \* calls in progress in concurrent processes

vars == <<disk, defaultRange, clock, uuids, result, prev, handed, sys,
          inflight>>

----------------------------------------------------------------------------
(* Property keys and plain objects *)

\* obj[port]: a number used as a property key is converted to a string
Key(port) == ToString(port)

\* Number(key) on a key of the allocations object
Number(key) == CHOOSE p \in Ports : ToString(p) = key

\* the truth value of registry.allocations[port]
Has(allocations, port) == Key(port) \in DOMAIN allocations

\* Put as it would be if the assignment replaced the whole allocations map
PutAlone(allocations, port, info) ==
  [k \in {Key(port)} |-> info]

\* registry.allocations[port] = info
Put(allocations, port, info) ==
  [k \in DOMAIN allocations \cup {Key(port)} |->
     IF k = Key(port) THEN info ELSE allocations[k]]

\* Delete as it would be if the delete missed the key
DeleteMissesKey(allocations, port) == allocations

\* delete registry.allocations[port]
Delete(allocations, port) ==
  [k \in DOMAIN allocations \ {Key(port)} |-> allocations[k]]

\* info.groupId, undefined when the record has no such property
GroupIdOf(info) ==
  IF "groupId" \in DOMAIN info THEN info.groupId ELSE Undefined

Min(S) == CHOOSE x \in S : \A y \in S : x <= y

RECURSIVE Ascending(_)
Ascending(S) ==
  IF S = {} THEN <<>> ELSE <<Min(S)>> \o Ascending(S \ {Min(S)})

\* Object.entries(registry.allocations): integer keys come in ascending order
Entries(allocations) ==
  Ascending({Number(k) : k \in DOMAIN allocations})

----------------------------------------------------------------------------
(* Registry store *)

EmptyRegistry == [version |-> "1.0.0", allocations |-> EmptyObject]

AbsentFile == [kind |-> "absent"]
CorruptFile == [kind |-> "corrupt"]

\* The file holds JSON.stringify(registry).  The registry holds strings and
\* objects of strings only, and its integer keys are written in ascending
\* order, so the text is determined by the value and parses back to it.
saveRegistry(registry) == [kind |-> "json", json |-> registry]

loadRegistry(file) ==
  IF file.kind = "absent" THEN EmptyRegistry
  ELSE IF file.kind = "corrupt" THEN EmptyRegistry
  ELSE file.json

\* checkPortAvailability as it would be if listen never failed
checkPortAvailabilityAlways(os, port) == TRUE

\* server.listen(port) succeeds unless the port is bound; the server is
\* closed before the answer is given
checkPortAvailability(os, port) == port \notin os

\* the log entry of one probe: the port and what the probe answered
Probe(os, port) ==
  [port |-> port, available |-> checkPortAvailability(os, port)]

----------------------------------------------------------------------------
(* PortManager.allocate *)

\* new Date().toISOString() when the clock shows now
Timestamp(now) == now

NoAvailablePorts(range) ==
  "No available ports in range " \o ToString(range.start) \o "-"
    \o ToString(range.end)

\* allocateScan as it would be if the loop ran from range.end downwards
RECURSIVE allocateScanDescending(_, _, _, _)
allocateScanDescending(allocations, os, port, end) ==
  IF port > end THEN [found |-> FALSE, port |-> Undefined, probes |-> <<>>]
  ELSE IF Has(allocations, end)
    THEN allocateScanDescending(allocations, os, port, end - 1)
  ELSE IF checkPortAvailability(os, end)
    THEN [found |-> TRUE, port |-> end, probes |-> <<Probe(os, end)>>]
  ELSE LET rest == allocateScanDescending(allocations, os, port, end - 1)
       IN  [rest EXCEPT !.probes = <<Probe(os, end)>> \o @]

\* allocateScan as it would be without the registry short-circuit
RECURSIVE allocateScanIgnoresRegistry(_, _, _, _)
allocateScanIgnoresRegistry(allocations, os, port, end) ==
  IF port > end THEN [found |-> FALSE, port |-> Undefined, probes |-> <<>>]
  ELSE IF checkPortAvailability(os, port)
    THEN [found |-> TRUE, port |-> port, probes |-> <<Probe(os, port)>>]
  ELSE LET rest == allocateScanIgnoresRegistry(allocations, os, port + 1, end)
       IN  [rest EXCEPT !.probes = <<Probe(os, port)>> \o @]

\* The for loop of allocate from candidate port on: the first port that is
\* not registered and that the probe finds available, and the ports probed.
RECURSIVE allocateScan(_, _, _, _)
allocateScan(allocations, os, port, end) ==
  IF port > end THEN [found |-> FALSE, port |-> Undefined, probes |-> <<>>]
  ELSE IF Has(allocations, port)
    THEN allocateScan(allocations, os, port + 1, end)
  ELSE IF checkPortAvailability(os, port)
    THEN [found |-> TRUE, port |-> port, probes |-> <<Probe(os, port)>>]
  ELSE LET rest == allocateScan(allocations, os, port + 1, end)
       IN  [rest EXCEPT !.probes = <<Probe(os, port)>> \o @]

\* allocate as it would be if it saved the loaded registry before throwing
allocateSavesBeforeThrow(file, range, metadata, os, now) ==
  LET registry == loadRegistry(file)
      scan == allocateScan(registry.allocations, os, range.start, range.end)
      info == [allocatedAt |-> Timestamp(now), metadata |-> metadata]
  IN  IF scan.found
      THEN [file |-> saveRegistry(
                       [registry EXCEPT
                          !.allocations = Put(@, scan.port, info)]),
            ok |-> TRUE, value |-> scan.port, error |-> Undefined,
            probes |-> scan.probes, writes |-> 1]
      ELSE [file |-> saveRegistry(registry),
            ok |-> FALSE, value |-> Undefined,
            error |-> NoAvailablePorts(range),
            probes |-> scan.probes, writes |-> 1]

\* allocate(range, metadata) on the registry file, with os the bound ports
\* and now the clock: the file it leaves and what it returns or throws.
allocate(file, range, metadata, os, now) ==
  LET registry == loadRegistry(file)
      scan == allocateScan(registry.allocations, os, range.start, range.end)
      info == [allocatedAt |-> Timestamp(now), metadata |-> metadata]
  IN  IF scan.found
      THEN [file |-> saveRegistry(
                       [registry EXCEPT
                          !.allocations = Put(@, scan.port, info)]),
            ok |-> TRUE, value |-> scan.port, error |-> Undefined,
            probes |-> scan.probes, writes |-> 1]
      ELSE [file |-> file,
            ok |-> FALSE, value |-> Undefined,
            error |-> NoAvailablePorts(range),
            probes |-> scan.probes, writes |-> 0]

----------------------------------------------------------------------------
(* PortManager.release *)

\* release as it would be if it returned whether a record was removed
releaseReportsFound(file, port) ==
  LET registry == loadRegistry(file)
  IN  IF Has(registry.allocations, port)
      THEN [file |-> saveRegistry(
                       [registry EXCEPT !.allocations = Delete(@, port)]),
            ok |-> TRUE, value |-> TRUE, error |-> Undefined,
            probes |-> <<>>, writes |-> 1]
      ELSE [file |-> file,
            ok |-> TRUE, value |-> FALSE, error |-> Undefined,
            probes |-> <<>>, writes |-> 0]

release(file, port) ==
  LET registry == loadRegistry(file)
  IN  IF Has(registry.allocations, port)
      THEN [file |-> saveRegistry(
                       [registry EXCEPT !.allocations = Delete(@, port)]),
            ok |-> TRUE, value |-> TRUE, error |-> Undefined,
            probes |-> <<>>, writes |-> 1]
      ELSE [file |-> file,
            ok |-> TRUE, value |-> TRUE, error |-> Undefined,
            probes |-> <<>>, writes |-> 0]

----------------------------------------------------------------------------
(* PortManager.allocateGroup *)

\* randomUUID(): the n-th id issued differs from all the others
randomUUID(n) == "uuid-" \o ToString(n)

\* the role name as it would be if any given roles[i], an empty one
\* included, were used as it is
RoleNameOfAnyGiven(roles, i) ==
  IF i + 1 <= Len(roles) THEN roles[i + 1] ELSE "port" \o ToString(i + 1)

\* roles[i] || `port${i + 1}`, i counted from 0: an absent or empty role
\* name is falsy
RoleName(roles, i) ==
  IF i + 1 <= Len(roles) /\ roles[i + 1] # ""
  THEN roles[i + 1]
  ELSE "port" \o ToString(i + 1)

GroupAllocationFailed(count, i) ==
  "Failed to allocate " \o ToString(count) \o " ports. Only " \o ToString(i)
    \o " were available."

\* allocatedPorts[role] = port
SetProperty(obj, key, val) ==
  [k \in DOMAIN obj \cup {key} |-> IF k = key THEN val ELSE obj[k]]

\* groupScan as it would be if it took the first port not yet recorded
\* whatever the probe answers
RECURSIVE groupScanTakesOccupied(_, _, _, _, _)
groupScanTakesOccupied(allocations, portNumbers, os, port, end) ==
  IF port > end THEN [found |-> FALSE, port |-> Undefined, probes |-> <<>>]
  ELSE IF Has(allocations, port)
          \/ \E k \in 1..Len(portNumbers) : portNumbers[k] = port
    THEN groupScanTakesOccupied(allocations, portNumbers, os, port + 1, end)
  ELSE [found |-> TRUE, port |-> port, probes |-> <<Probe(os, port)>>]

\* The inner for loop of allocateGroup from candidate port on.
RECURSIVE groupScan(_, _, _, _, _)
groupScan(allocations, portNumbers, os, port, end) ==
  IF port > end THEN [found |-> FALSE, port |-> Undefined, probes |-> <<>>]
  ELSE IF Has(allocations, port)
          \/ \E k \in 1..Len(portNumbers) : portNumbers[k] = port
    THEN groupScan(allocations, portNumbers, os, port + 1, end)
  ELSE IF checkPortAvailability(os, port)
    THEN [found |-> TRUE, port |-> port, probes |-> <<Probe(os, port)>>]
  ELSE LET rest == groupScan(allocations, portNumbers, os, port + 1, end)
       IN  [rest EXCEPT !.probes = <<Probe(os, port)>> \o @]

\* for (const allocatedPort of portNumbers) delete registry.allocations[..]
RECURSIVE Rollback(_, _)
Rollback(allocations, portNumbers) ==
  IF portNumbers = <<>> THEN allocations
  ELSE Rollback(Delete(allocations, Head(portNumbers)), Tail(portNumbers))

\* The outer for loop of allocateGroup from index i on.  st holds the locals
\* registry.allocations, allocatedPorts, portNumbers and the ports probed.
RECURSIVE groupLoop(_, _, _, _, _, _, _, _, _)
groupLoop(i, count, st, range, metadata, roles, os, now, groupId) ==
  IF i >= count THEN st
  ELSE
    LET scan == groupScan(st.allocations, st.portNumbers, os,
                          range.start, range.end)
        role == RoleName(roles, i)
        info == [allocatedAt |-> Timestamp(now), groupId |-> groupId,
                 role |-> role, metadata |-> metadata]
    IN  IF scan.found
        THEN groupLoop(i + 1, count,
               [allocations |-> Put(st.allocations, scan.port, info),
                allocatedPorts |->
                  SetProperty(st.allocatedPorts, role, scan.port),
                portNumbers |-> Append(st.portNumbers, scan.port),
                probes |-> st.probes \o scan.probes,
                error |-> Undefined],
               range, metadata, roles, os, now, groupId)
        ELSE [allocations |-> Rollback(st.allocations, st.portNumbers),
              allocatedPorts |-> st.allocatedPorts,
              portNumbers |-> st.portNumbers,
              probes |-> st.probes \o scan.probes,
              error |-> GroupAllocationFailed(count, i)]

\* allocateGroup as it would be if the registry were saved as each port is
\* found, so that a failed call leaves the ports found before it gave up
allocateGroupSavesFound(file, range, count, metadata, roles, os, now, groupId) ==
  LET registry == loadRegistry(file)
      start == [allocations |-> registry.allocations,
                allocatedPorts |-> EmptyObject,
                portNumbers |-> <<>>,
                probes |-> <<>>,
                error |-> Undefined]
      end == groupLoop(0, count, start, range, metadata, roles, os, now,
                       groupId)
      found == groupLoop(0, Len(end.portNumbers), start, range, metadata,
                         roles, os, now, groupId)
  IN  IF end.error = Undefined
      THEN [file |-> saveRegistry(
                       [registry EXCEPT !.allocations = end.allocations]),
            ok |-> TRUE,
            value |-> [groupId |-> groupId, ports |-> end.allocatedPorts,
                       metadata |-> metadata],
            error |-> Undefined,
            probes |-> end.probes, writes |-> 1]
      ELSE [file |-> IF end.portNumbers = <<>> THEN file
                     ELSE saveRegistry(
                            [registry EXCEPT
                               !.allocations = found.allocations]),
            ok |-> FALSE, value |-> Undefined,
            error |-> end.error,
            probes |-> end.probes, writes |-> Len(end.portNumbers)]

allocateGroup(file, range, count, metadata, roles, os, now, groupId) ==
  LET registry == loadRegistry(file)
      end == groupLoop(0, count,
               [allocations |-> registry.allocations,
                allocatedPorts |-> EmptyObject,
                portNumbers |-> <<>>,
                probes |-> <<>>,
                error |-> Undefined],
               range, metadata, roles, os, now, groupId)
  IN  IF end.error = Undefined
      THEN [file |-> saveRegistry(
                       [registry EXCEPT !.allocations = end.allocations]),
            ok |-> TRUE,
            value |-> [groupId |-> groupId, ports |-> end.allocatedPorts,
                       metadata |-> metadata],
            error |-> Undefined,
            probes |-> end.probes, writes |-> 1]
      ELSE [file |-> file,
            ok |-> FALSE, value |-> Undefined,
            error |-> end.error,
            probes |-> end.probes, writes |-> 0]

----------------------------------------------------------------------------
(* PortManager.releaseGroup *)

\* releaseLoop as it would be with a break after the first match
RECURSIVE releaseLoopStopsAtFirst(_, _, _, _)
releaseLoopStopsAtFirst(entries, allocations, releasedPorts, groupId) ==
  IF entries = <<>>
  THEN [allocations |-> allocations, releasedPorts |-> releasedPorts]
  ELSE LET port == Head(entries)
       IN  IF GroupIdOf(allocations[Key(port)]) = groupId
           THEN [allocations |-> Delete(allocations, port),
                 releasedPorts |-> Append(releasedPorts, port)]
           ELSE releaseLoopStopsAtFirst(Tail(entries), allocations,
                                        releasedPorts, groupId)

\* releaseLoop as it would be if it listed every port it visits
RECURSIVE releaseLoopListsVisited(_, _, _, _)
releaseLoopListsVisited(entries, allocations, releasedPorts, groupId) ==
  IF entries = <<>>
  THEN [allocations |-> allocations, releasedPorts |-> releasedPorts]
  ELSE LET port == Head(entries)
       IN  IF GroupIdOf(allocations[Key(port)]) = groupId
           THEN releaseLoopListsVisited(Tail(entries),
                  Delete(allocations, port), Append(releasedPorts, port),
                  groupId)
           ELSE releaseLoopListsVisited(Tail(entries), allocations,
                  Append(releasedPorts, port), groupId)

\* The for loop of releaseGroup over the entries still to visit.
RECURSIVE releaseLoop(_, _, _, _)
releaseLoop(entries, allocations, releasedPorts, groupId) ==
  IF entries = <<>>
  THEN [allocations |-> allocations, releasedPorts |-> releasedPorts]
  ELSE LET port == Head(entries)
       IN  IF GroupIdOf(allocations[Key(port)]) = groupId
           THEN releaseLoop(Tail(entries), Delete(allocations, port),
                            Append(releasedPorts, port), groupId)
           ELSE releaseLoop(Tail(entries), allocations, releasedPorts,
                            groupId)

releaseGroup(file, groupId) ==
  LET registry == loadRegistry(file)
      end == releaseLoop(Entries(registry.allocations),
                         registry.allocations, <<>>, groupId)
  IN  [file |-> saveRegistry(
                  [registry EXCEPT !.allocations = end.allocations]),
       ok |-> TRUE,
       value |-> [released |-> Len(end.releasedPorts),
                  ports |-> end.releasedPorts],
       error |-> Undefined,
       probes |-> <<>>, writes |-> 1]

----------------------------------------------------------------------------
(* The calls *)

\* group ids a caller may pass: the ids issued so far, one not issued yet,
\* and a missing argument
GroupIdArgs == {randomUUID(n) : n \in 0..uuids} \cup {Undefined}

\* The sequential calls below take the operating system's answers as inputs
\* and run one at a time: no socket table is kept and nothing is in progress.
NoSys == [listen |-> <<>>, alive |-> {}, outside |-> FALSE]

NoInflight == <<>>

NoCall ==
  [op |-> "none", args |-> Undefined, ok |-> TRUE, value |-> Undefined,
   error |-> Undefined, probes |-> <<>>, writes |-> 0,
   pre |-> AbsentFile]

\* The record of a call: r is what the method's operator yields.
Call(op, args, r) ==
  [op |-> op, args |-> args, ok |-> r.ok, value |-> r.value,
   error |-> r.error, probes |-> r.probes, writes |-> r.writes,
   pre |-> disk]

\* What is kept of the call before the last one: for a successful allocate
\* the port it returned and the registry file it started from, for a
\* releaseGroup the group id it was given and how many ports it released,
\* and nothing for any other call.
Digest(call) ==
  IF call.op = "allocate" /\ call.ok
  THEN [op |-> "allocate", value |-> call.value, pre |-> call.pre,
        groupId |-> Undefined]
  ELSE IF call.op = "releaseGroup"
  THEN [op |-> "releaseGroup", value |-> call.value.released,
        pre |-> AbsentFile, groupId |-> call.args.groupId]
  ELSE [op |-> "other", value |-> Undefined, pre |-> AbsentFile,
        groupId |-> Undefined]

\* The ports of range a call may probe: the operating system is an input of
\* the call on these ports only.
Candidates(range) ==
  {p \in range.start..range.end :
     ~Has(loadRegistry(disk).allocations, p)}

\* the ports a successful allocateGroup returns
PortsOf(ports) == {ports[role] : role \in DOMAIN ports}

Init ==
  /\ disk \in {AbsentFile, CorruptFile}
  /\ defaultRange = [start |-> PortBase, end |-> LastPort]
  /\ clock = 0
  /\ uuids = 0
  /\ result = NoCall
  /\ prev = Digest(NoCall)
  /\ handed = {}
  /\ sys = NoSys
  /\ inflight = NoInflight

Allocate ==
  /\ result.op = "none"
  /\ clock < MaxCalls
  /\ \E range \in Ranges, metadata \in Metadatas :
     \E os \in SUBSET Candidates(range) :
       LET r == allocate(disk, range, metadata, os, clock)
       IN  /\ disk' = r.file
           /\ result' = Call("allocate",
                             [range |-> range, metadata |-> metadata], r)
           /\ handed' = IF r.ok THEN handed \cup {r.value} ELSE handed
  /\ clock' = clock + 1
  /\ UNCHANGED <<defaultRange, uuids, prev, sys, inflight>>

Release ==
  /\ result.op = "none"
  /\ clock < MaxCalls
  /\ \E port \in Ports :
       LET r == release(disk, port)
       IN  /\ disk' = r.file
           /\ result' = Call("release", [port |-> port], r)
  /\ handed' = {}
  /\ clock' = clock + 1
  /\ UNCHANGED <<defaultRange, uuids, prev, sys, inflight>>

AllocateGroup ==
  /\ result.op = "none"
  /\ clock < MaxCalls
  /\ \E count \in 1..MaxCount, metadata \in GroupMetadatas,
        roles \in RoleLists,
        os \in SUBSET Candidates(defaultRange) :
       LET r == allocateGroup(disk, defaultRange, count, metadata, roles, os,
                              clock, randomUUID(uuids))
       IN  /\ disk' = r.file
           /\ result' = Call("allocateGroup",
                             [count |-> count, metadata |-> metadata,
                              roles |-> roles], r)
           /\ handed' = IF r.ok THEN handed \cup PortsOf(r.value.ports)
                        ELSE handed
  /\ uuids' = uuids + 1
  /\ clock' = clock + 1
  /\ UNCHANGED <<defaultRange, prev, sys, inflight>>

ReleaseGroup ==
  /\ result.op = "none"
  /\ clock < MaxCalls
  /\ \E groupId \in GroupIdArgs :
       LET r == releaseGroup(disk, groupId)
       IN  /\ disk' = r.file
           /\ result' = Call("releaseGroup", [groupId |-> groupId], r)
  /\ handed' = {}
  /\ clock' = clock + 1
  /\ UNCHANGED <<defaultRange, uuids, prev, sys, inflight>>

\* The caller takes the result and the call is over: a PortManager keeps
\* nothing of a call but the registry file.
Return ==
  /\ result.op # "none"
  /\ clock < MaxCalls
  /\ prev' = Digest(result)
  /\ result' = NoCall
  /\ UNCHANGED <<disk, defaultRange, clock, uuids, handed, sys, inflight>>

Next == Allocate \/ Release \/ AllocateGroup \/ ReleaseGroup \/ Return

Spec == Init /\ [][Next]_vars

----------------------------------------------------------------------------
(* What the properties speak of *)

\* the allocations of the registry that a load of file yields
Allocs(file) == loadRegistry(file).allocations

\* the ports that are keys of the registry in file
Keys(file) == {Number(k) : k \in DOMAIN Allocs(file)}

\* the record of port in file
Record(file, port) == Allocs(file)[Key(port)]

\* every record of file other than those of the ports in S is in the
\* current registry file, unchanged
OthersUnchanged(file, S) ==
  \A p \in Keys(file) \ S : p \in Keys(disk) /\ Record(disk, p) = Record(file, p)

PortsIn(range) == range.start..range.end

\* the ports the last call probed, by the answer it got
ProbedAvailable ==
  {result.probes[i].port : i \in {j \in 1..Len(result.probes) :
                                    result.probes[j].available}}
ProbedUnavailable ==
  {result.probes[i].port : i \in {j \in 1..Len(result.probes) :
                                    ~result.probes[j].available}}
Probed == ProbedAvailable \cup ProbedUnavailable

\* C1: a failed allocateGroup found fewer than count free ports in the whole
\* default range, throws the group-allocation error that says how many it
\* found, and leaves the registry file exactly as it was: nothing of the
\* ports found earlier in the call is written.
C1_FailedGroupWritesNothing ==
  (result.op = "allocateGroup" /\ ~result.ok) =>
    /\ Cardinality(ProbedAvailable) < result.args.count
    /\ PortsIn(defaultRange) \ Keys(result.pre) \subseteq Probed
    /\ result.error = GroupAllocationFailed(result.args.count,
                                            Cardinality(ProbedAvailable))
    /\ result.writes = 0
    /\ disk = result.pre

\* a failed allocateGroup that had found a port before it gave up, on a
\* registry that held a record
C1_Witness ==
  /\ result.op = "allocateGroup"
  /\ ~result.ok
  /\ ProbedAvailable # {}
  /\ Keys(result.pre) # {}

\* C2: a successful allocateGroup(n, metadata, roles) returns a role-to-port
\* mapping of exactly n pairwise distinct ports, none a key of the registry
\* it loaded, whatever the roles list.
C2_GroupReturnsCountPorts ==
  (result.op = "allocateGroup" /\ result.ok) =>
    /\ Cardinality(DOMAIN result.value.ports) = result.args.count
    /\ Cardinality(PortsOf(result.value.ports)) = result.args.count
    /\ PortsOf(result.value.ports) \cap Keys(result.pre) = {}

\* C3: allocate returns the smallest port of the range that is not a key of
\* the registry it loaded and that the probe reports available.
C3_AllocateLowestAvailable ==
  (result.op = "allocate" /\ result.ok) =>
    /\ result.value \in PortsIn(result.args.range)
    /\ result.value \notin Keys(result.pre)
    /\ result.value \in ProbedAvailable
    /\ \A q \in PortsIn(result.args.range) :
         q < result.value => q \in Keys(result.pre) \/ q \in ProbedUnavailable

\* an allocate that passed over a registered port and an occupied port
C3_Witness ==
  /\ result.op = "allocate"
  /\ result.ok
  /\ \E q \in PortsIn(result.args.range) :
       q < result.value /\ q \in Keys(result.pre)
  /\ \E q \in PortsIn(result.args.range) :
       q < result.value /\ q \in ProbedUnavailable

\* C4: after a successful allocate returning p the registry file holds the
\* registry it loaded plus one new record keyed p with the supplied
\* metadata, every other record unchanged; on an empty registry, with the
\* first port of the range occupied and the second free, it returns the
\* second port and the registry holds that port only.
C4_AllocateAddsOneRecord ==
  (result.op = "allocate" /\ result.ok) =>
    /\ result.writes = 1
    /\ disk.kind = "json"
    /\ disk.json.version = loadRegistry(result.pre).version
    /\ result.value \notin Keys(result.pre)
    /\ Keys(disk) = Keys(result.pre) \cup {result.value}
    /\ Record(disk, result.value).metadata = result.args.metadata
    /\ OthersUnchanged(result.pre, {})
    /\ ( /\ Keys(result.pre) = {}
         /\ result.args.range = [start |-> PortBase, end |-> LastPort]
         /\ result.probes = <<[port |-> PortBase, available |-> FALSE],
                              [port |-> PortBase + 1, available |-> TRUE]>>
         => result.value = PortBase + 1 /\ Keys(disk) = {PortBase + 1} )

\* an allocate with metadata into a registry that already held a record
C4_Witness ==
  /\ result.op = "allocate"
  /\ result.ok
  /\ Keys(result.pre) # {}
  /\ result.args.metadata # EmptyObject

\* C5: when every port of the range is a registry key or is reported
\* unavailable (the empty range included), allocate throws the error that
\* names range.start and range.end and does not write the registry file.
C5_ExhaustedAllocateWritesNothing ==
  ( /\ result.op = "allocate"
    /\ \A p \in PortsIn(result.args.range) :
         p \in Keys(result.pre) \/ p \in ProbedUnavailable ) =>
    /\ ~result.ok
    /\ result.error = "No available ports in range "
                        \o ToString(result.args.range.start) \o "-"
                        \o ToString(result.args.range.end)
    /\ result.writes = 0
    /\ disk = result.pre

\* an allocate that gave up on a range holding a registered port and an
\* occupied port
C5_Witness ==
  /\ result.op = "allocate"
  /\ ~result.ok
  /\ PortsIn(result.args.range) \cap Keys(result.pre) # {}
  /\ ProbedUnavailable # {}

\* C6: allocate never probes and never returns a key of the registry it
\* loaded; and a port returned by allocate or allocateGroup was returned by
\* no earlier call since the last call that removes records, nor twice by
\* the same call.
C6_NoPortHandedOutTwice ==
  /\ [](result.op = "allocate" =>
          /\ Probed \cap Keys(result.pre) = {}
          /\ (result.ok => result.value \notin Keys(result.pre)))
  /\ [][ /\ (result'.op = "allocate" /\ result'.ok) =>
              result'.value \notin handed
         /\ (result'.op = "allocateGroup" /\ result'.ok) =>
              /\ PortsOf(result'.value.ports) \cap handed = {}
              /\ \A r1, r2 \in DOMAIN result'.value.ports :
                   r1 # r2 => result'.value.ports[r1] # result'.value.ports[r2]
       ]_vars

\* an allocate that skipped a port handed out earlier and returned another
C6_Witness ==
  /\ result.op = "allocate"
  /\ result.ok
  /\ handed \cap PortsIn(result.args.range) # {result.value}
  /\ Cardinality(handed) >= 2

\* C7: release(port) returns true whether or not the port is registered;
\* afterwards the port is no key of the registry, every other record is
\* unchanged, and releasing it again changes nothing.
C7_ReleaseRemovesOnlyThePort ==
  result.op = "release" =>
    /\ result.ok
    /\ result.value = TRUE
    /\ Keys(disk) = Keys(result.pre) \ {result.args.port}
    /\ OthersUnchanged(result.pre, {result.args.port})
    /\ release(disk, result.args.port).file = disk
    /\ release(disk, result.args.port).value = TRUE

\* a release of a registered port from a registry holding another record
C7_Witness ==
  /\ result.op = "release"
  /\ result.args.port \in Keys(result.pre)
  /\ Keys(disk) # {}

\* C8: release(p) right after a successful allocate that returned p leaves
\* the allocations the registry held before that allocate.
C8_AllocateReleaseRoundTrip ==
  ( /\ result.op = "release"
    /\ prev.op = "allocate"
    /\ result.args.port = prev.value ) =>
    Allocs(disk) = Allocs(prev.pre)

\* the round trip on a registry that held a record before the allocate
C8_Witness ==
  /\ result.op = "release"
  /\ prev.op = "allocate"
  /\ result.args.port = prev.value
  /\ Keys(prev.pre) # {}

\* C9: releaseGroup(groupId) removes the records whose groupId equals the
\* argument and no other; the ports it returns are the removed ports, each
\* once, and released is their number.
C9_ReleaseGroupRemovesTheGroup ==
  result.op = "releaseGroup" =>
    LET removed == {p \in Keys(result.pre) :
                      GroupIdOf(Record(result.pre, p)) = result.args.groupId}
        ports == result.value.ports
    IN  /\ Keys(disk) = Keys(result.pre) \ removed
        /\ OthersUnchanged(result.pre, removed)
        /\ {ports[i] : i \in 1..Len(ports)} = removed
        /\ Len(ports) = Cardinality(removed)
        /\ result.value.released = Len(ports)

\* a releaseGroup that removed a group of two and left another record
C9_Witness ==
  /\ result.op = "releaseGroup"
  /\ result.value.released = 2
  /\ Keys(disk) # {}

\* C10: a releaseGroup called right after a releaseGroup with the same id,
\* or with an id no record carries, returns released: 0 and no ports, and
\* leaves the allocations as they were.
C10_ReleaseGroupIdempotent ==
  ( /\ result.op = "releaseGroup"
    /\ \/ prev.op = "releaseGroup" /\ prev.groupId = result.args.groupId
       \/ \A p \in Keys(result.pre) :
            GroupIdOf(Record(result.pre, p)) # result.args.groupId ) =>
    /\ result.value.released = 0
    /\ result.value.ports = <<>>
    /\ Allocs(disk) = Allocs(result.pre)

\* the second of two releaseGroup calls with the id of a group that the
\* first one released
C10_Witness ==
  /\ result.op = "releaseGroup"
  /\ prev.op = "releaseGroup"
  /\ prev.groupId = result.args.groupId
  /\ prev.value > 0

----------------------------------------------------------------------------
(* The operating system: listening sockets and processes *)

\* sys.listen maps each bound port to the pid of the process listening on it,
\* sys.alive is the set of live pids, and sys.outside records whether a
\* process has bound or freed a port that the registry did not hold.
Pids == 1..MaxPids

Listening(s) == DOMAIN s.listen

\* the ports on which process pid listens
BoundBy(s, pid) == {p \in Listening(s) : s.listen[p] = pid}

\* process pid binds port
Bind(s, pid, port) ==
  [s EXCEPT !.listen = [p \in Listening(s) \cup {port} |->
                          IF p = port THEN pid ELSE s.listen[p]],
            !.alive = @ \cup {pid}]

\* process pid ends: its sockets are closed
Exit(s, pid) ==
  [s EXCEPT !.listen = [p \in Listening(s) \ BoundBy(s, pid) |-> s.listen[p]],
            !.alive = @ \ {pid}]

\* ps -p <pid> -o comm= / tasklist: the name of process pid
comm(pid) == "proc-" \o ToString(pid)

Null == [kind |-> "null"]

\* How the inspection tools (netstat, lsof, ps, tasklist) can answer: with
\* the pid and the name, with the pid but no name, or not at all.
Tools == {"named", "unnamed", "failed"}

\* detectOccupier(port): the listener the tools report, null when the port
\* is not bound or when the tools fail
detectOccupier(s, port, tool) ==
  IF port \notin Listening(s) \/ tool = "failed" THEN Null
  ELSE [pid |-> s.listen[port],
        processName |-> IF tool = "named" THEN comm(s.listen[port])
                        ELSE "unknown"]

\* How a termination command can end: the command fails, the process exits
\* and its port is freed, or the command succeeds and the port stays bound
\* (the signal is handled, or a child holds the socket).
Outcomes == {"refused", "exits", "lingers"}

\* killProcess(pid, force): whether the command succeeded, and the system
\* after it
killProcess(s, pid, force, outcome) ==
  [killed |-> outcome # "refused",
   sys |-> IF outcome = "exits" THEN Exit(s, pid) ELSE s,
   attempt |-> [pid |-> pid, force |-> force]]

\* PortManager.probe(port)
probe(s, port) ==
  [port |-> port, inUse |-> ~checkPortAvailability(Listening(s), port)]

\* PortManager.detectOccupier(port)
detectOccupierOf(s, port, tool) ==
  LET found == detectOccupier(s, port, tool)
  IN  IF found # Null
      THEN [pid |-> found.pid, processName |-> found.processName,
            port |-> port]
      ELSE Null

----------------------------------------------------------------------------
(* PortManager.killOccupier and PortManager.reserve *)

\* Option as it would be if a missing option counted as true
OptionMissingIsTrue(options, name, missing) ==
  IF name \in DOMAIN options THEN options[name] ELSE TRUE

\* options.<name>, or the value that stands for a missing option
Option(options, name, missing) ==
  IF name \in DOMAIN options THEN options[name] ELSE missing

NotInUse == "Port not in use"

\* the accesses to the registry file of a method that would write before it
\* loads
SaveThenLoad(writes) == [i \in 1..writes |-> "save"] \o <<"load">>

\* the accesses to the registry file of a method that loads the registry
\* first and saves it last: allocate, release, allocateGroup, releaseGroup,
\* cleanup
LoadThenSave(writes) == <<"load">> \o [i \in 1..writes |-> "save"]

\* killOccupier as it would be if it released the port whatever the
\* termination reported
killOccupierAlwaysReleases(file, s, port, options, tool, outcome) ==
  LET occupier == detectOccupierOf(s, port, tool)
  IN  IF occupier = Null
      THEN [file |-> file, sys |-> s, ok |-> TRUE,
            value |-> [killed |-> FALSE, reason |-> NotInUse],
            error |-> Undefined, probes |-> <<>>, writes |-> 0,
            detected |-> occupier, kills |-> <<>>, trace |-> <<"detect">>,
            accesses |-> <<>>]
      ELSE LET k == killProcess(s, occupier.pid,
                                Option(options, "force", FALSE), outcome)
               r == release(file, port)
           IN  [file |-> r.file, sys |-> k.sys, ok |-> TRUE,
                value |-> [killed |-> k.killed, pid |-> occupier.pid,
                           processName |-> occupier.processName],
                error |-> Undefined, probes |-> <<>>, writes |-> r.writes,
                detected |-> occupier, kills |-> <<k.attempt>>,
                trace |-> <<"detect", "terminate", "release">>,
                accesses |-> LoadThenSave(r.writes)]

\* killOccupier(port, options) on the registry file and the system s, with
\* the answers of the inspection and of the termination as inputs: the file
\* and the system it leaves, what it returns, the terminations it attempted
\* and the steps it took.
killOccupier(file, s, port, options, tool, outcome) ==
  LET occupier == detectOccupierOf(s, port, tool)
  IN  IF occupier = Null
      THEN [file |-> file, sys |-> s, ok |-> TRUE,
            value |-> [killed |-> FALSE, reason |-> NotInUse],
            error |-> Undefined, probes |-> <<>>, writes |-> 0,
            detected |-> occupier, kills |-> <<>>, trace |-> <<"detect">>,
            accesses |-> <<>>]
      ELSE LET k == killProcess(s, occupier.pid,
                                Option(options, "force", FALSE), outcome)
               r == release(file, port)
           IN  [file |-> IF k.killed THEN r.file ELSE file,
                sys |-> k.sys, ok |-> TRUE,
                value |-> [killed |-> k.killed, pid |-> occupier.pid,
                           processName |-> occupier.processName],
                error |-> Undefined, probes |-> <<>>,
                writes |-> IF k.killed THEN r.writes ELSE 0,
                detected |-> occupier, kills |-> <<k.attempt>>,
                trace |-> IF k.killed
                          THEN <<"detect", "terminate", "release">>
                          ELSE <<"detect", "terminate">>,
                accesses |-> IF k.killed THEN LoadThenSave(r.writes)
                             ELSE <<>>]

Occupant(port, occupier) ==
  "Port " \o ToString(port) \o " is occupied by " \o occupier.processName
    \o " (PID: " \o ToString(occupier.pid) \o ")"

PortOccupied(port, occupier) ==
  Occupant(port, occupier) \o ". Use killIfOccupied option to force."

CouldNotBeKilled(port, occupier) ==
  Occupant(port, occupier) \o " and could not be killed"

StillUnavailable(port) ==
  "Port " \o ToString(port)
    \o " is still not available after killing process"

NotAvailable(port) == "Port " \o ToString(port) \o " is not available"

\* reserveWrite as it would be if it stored no metadata
reserveWriteWithoutMetadata(file, port, options, now) ==
  LET registry == loadRegistry(file)
      info == [allocatedAt |-> Timestamp(now), metadata |-> EmptyObject]
  IN  saveRegistry([registry EXCEPT !.allocations = Put(@, port, info)])

\* registry.allocations[port] = {allocatedAt, metadata: options.metadata ||
\* {}} on the registry loaded from file, then saveRegistry
reserveWrite(file, port, options, now) ==
  LET registry == loadRegistry(file)
      info == [allocatedAt |-> Timestamp(now),
               metadata |-> Option(options, "metadata", EmptyObject)]
  IN  saveRegistry([registry EXCEPT !.allocations = Put(@, port, info)])

\* reserveProbeAndWrite as it would be if it recorded the port whatever the
\* probe answered
reserveWritesUnprobed(file, s, port, options, now, value, unavailable) ==
  [file |-> reserveWrite(file, port, options, now), sys |-> s,
   ok |-> TRUE, value |-> value, error |-> Undefined,
   probes |-> <<Probe(Listening(s), port)>>, writes |-> 1,
   detected |-> Null, kills |-> <<>>, trace |-> <<"probe", "write">>,
   accesses |-> LoadThenSave(1)]

\* the last steps of both paths of reserve: probe the port, and record it if
\* the probe finds it available
reserveProbeAndWrite(file, s, port, options, now, value, unavailable) ==
  IF checkPortAvailability(Listening(s), port)
  THEN [file |-> reserveWrite(file, port, options, now), sys |-> s,
        ok |-> TRUE, value |-> value, error |-> Undefined,
        probes |-> <<Probe(Listening(s), port)>>, writes |-> 1,
        detected |-> Null, kills |-> <<>>, trace |-> <<"probe", "write">>,
        accesses |-> LoadThenSave(1)]
  ELSE [file |-> file, sys |-> s,
        ok |-> FALSE, value |-> Undefined, error |-> unavailable,
        probes |-> <<Probe(Listening(s), port)>>, writes |-> 0,
        detected |-> Null, kills |-> <<>>, trace |-> <<"probe">>,
        accesses |-> <<>>]

\* reserve(port, options) after its first line, which detected occupier: s
\* is the system by then, tool2 answers the inspection killOccupier makes
\* again, outcome the termination.
reserveFrom(file, s, port, options, occupier, tool2, outcome, now) ==
  IF occupier # Null
      THEN IF Option(options, "killIfOccupied", FALSE)
           THEN LET kr == killOccupier(file, s, port,
                            [force |-> Option(options, "force", FALSE)],
                            tool2, outcome)
                    rest == reserveProbeAndWrite(kr.file, kr.sys, port,
                              options, now,
                              [port |-> port, wasOccupied |-> TRUE,
                               killed |-> TRUE, occupier |-> occupier],
                              StillUnavailable(port))
                IN  IF ~kr.value.killed
                    THEN [kr EXCEPT !.ok = FALSE, !.value = Undefined,
                                    !.error = CouldNotBeKilled(port, occupier),
                                    !.detected = occupier,
                                    !.trace = <<"detect">> \o @]
                    ELSE [rest EXCEPT
                            !.writes = kr.writes + @,
                            !.kills = kr.kills,
                            !.detected = occupier,
                            !.trace = <<"detect">> \o kr.trace \o <<"wait">>
                                        \o @,
                            !.accesses = kr.accesses \o @]
           ELSE [file |-> file, sys |-> s, ok |-> FALSE, value |-> Undefined,
                 error |-> PortOccupied(port, occupier), probes |-> <<>>,
                 writes |-> 0, detected |-> occupier, kills |-> <<>>,
                 trace |-> <<"detect">>, accesses |-> <<>>]
      ELSE LET rest == reserveProbeAndWrite(file, s, port, options, now,
                         [port |-> port, wasOccupied |-> FALSE],
                         NotAvailable(port))
           IN  [rest EXCEPT !.trace = <<"detect">> \o @]

\* reserve(port, options): tool answers its own inspection of the port; the
\* system does not change during the call.
reserve(file, s, port, options, tool, tool2, outcome, now) ==
  reserveFrom(file, s, port, options, detectOccupierOf(s, port, tool), tool2,
              outcome, now)

----------------------------------------------------------------------------
(* PortManager calls on a system whose sockets and processes persist *)

ReserveOptions ==
  {EmptyObject, [killIfOccupied |-> FALSE], [killIfOccupied |-> TRUE],
   [killIfOccupied |-> TRUE, force |-> TRUE], [metadata |-> [app |-> "web"]],
   [killIfOccupied |-> TRUE, metadata |-> [app |-> "web"]]}

KillOptions == {EmptyObject, [force |-> TRUE]}

\* The record of a call on the system: r is what the method's operator
\* yields, with the occupier it detected first, the terminations it
\* attempted and the steps it took when it is reserve or killOccupier.
OsCall(op, args, r) ==
  [op |-> op, args |-> args, ok |-> r.ok, value |-> r.value,
   error |-> r.error, probes |-> r.probes, writes |-> r.writes,
   detected |-> Option(r, "detected", Null),
   kills |-> Option(r, "kills", <<>>), trace |-> Option(r, "trace", <<>>),
   accesses |-> Option(r, "accesses", LoadThenSave(r.writes)),
   pre |-> disk, preSys |-> sys]

OsInit ==
  /\ disk \in {AbsentFile, CorruptFile}
  /\ defaultRange = [start |-> PortBase, end |-> LastPort]
  /\ clock = 0
  /\ uuids = 0
  /\ result = NoCall
  /\ prev = Digest(NoCall)
  /\ handed = {}
  /\ sys = NoSys
  /\ inflight = NoInflight

\* the pids a process that binds a port may have: that of a live process, or
\* the next one the system issues
NextPids(s) ==
  s.alive \cup (IF Pids \ s.alive = {} THEN {} ELSE {Min(Pids \ s.alive)})

\* A process binds a free port.  It is a user of the registry when the
\* registry holds the port, and an outside process otherwise.
OsListen ==
  /\ result.op = "none"
  /\ clock < MaxCalls
  /\ \E pid \in NextPids(sys), port \in Ports \ Listening(sys) :
       sys' = [Bind(sys, pid, port) EXCEPT
                 !.outside = @ \/ port \notin Keys(disk)]
  /\ clock' = clock + 1
  /\ UNCHANGED <<disk, defaultRange, uuids, result, prev, handed, inflight>>

\* A listening process ends and its ports are freed.
OsExit ==
  /\ result.op = "none"
  /\ clock < MaxCalls
  /\ \E pid \in sys.alive :
       sys' = [Exit(sys, pid) EXCEPT
                 !.outside = @ \/ BoundBy(sys, pid) \ Keys(disk) # {}]
  /\ clock' = clock + 1
  /\ UNCHANGED <<disk, defaultRange, uuids, result, prev, handed, inflight>>

OsAllocate ==
  /\ result.op = "none"
  /\ clock < MaxCalls
  /\ \E metadata \in {EmptyObject} :
       LET r == allocate(disk, defaultRange, metadata, Listening(sys), clock)
       IN  /\ disk' = r.file
           /\ result' = OsCall("allocate",
                               [range |-> defaultRange,
                                metadata |-> metadata], r)
  /\ clock' = clock + 1
  /\ UNCHANGED <<defaultRange, uuids, prev, handed, sys, inflight>>

OsAllocateGroup ==
  /\ result.op = "none"
  /\ clock < MaxCalls
  /\ \E count \in 1..MaxCount, metadata \in GroupMetadatas :
       LET r == allocateGroup(disk, defaultRange, count, metadata, <<>>,
                              Listening(sys), clock, randomUUID(uuids))
       IN  /\ disk' = r.file
           /\ result' = OsCall("allocateGroup",
                               [count |-> count, metadata |-> metadata,
                                roles |-> <<>>], r)
  /\ uuids' = uuids + 1
  /\ clock' = clock + 1
  /\ UNCHANGED <<defaultRange, prev, handed, sys, inflight>>

OsRelease ==
  /\ result.op = "none"
  /\ clock < MaxCalls
  /\ \E port \in Ports :
       LET r == release(disk, port)
       IN  /\ disk' = r.file
           /\ result' = OsCall("release", [port |-> port], r)
  /\ clock' = clock + 1
  /\ UNCHANGED <<defaultRange, uuids, prev, handed, sys, inflight>>

OsReleaseGroup ==
  /\ result.op = "none"
  /\ clock < MaxCalls
  /\ \E groupId \in GroupIdArgs :
       LET r == releaseGroup(disk, groupId)
       IN  /\ disk' = r.file
           /\ result' = OsCall("releaseGroup", [groupId |-> groupId], r)
  /\ clock' = clock + 1
  /\ UNCHANGED <<defaultRange, uuids, prev, handed, sys, inflight>>

OsReserve ==
  /\ result.op = "none"
  /\ clock < MaxCalls
  /\ \E port \in Ports, options \in ReserveOptions, tool \in Tools,
        tool2 \in {"named", "failed"}, outcome \in Outcomes :
       LET r == reserve(disk, sys, port, options, tool, tool2, outcome, clock)
       IN  /\ disk' = r.file
           /\ sys' = r.sys
           /\ result' = OsCall("reserve",
                               [port |-> port, options |-> options], r)
  /\ clock' = clock + 1
  /\ UNCHANGED <<defaultRange, uuids, prev, handed, inflight>>

OsKillOccupier ==
  /\ result.op = "none"
  /\ clock < MaxCalls
  /\ \E port \in Ports, options \in KillOptions, tool \in Tools,
        outcome \in Outcomes :
       LET r == killOccupier(disk, sys, port, options, tool, outcome)
       IN  /\ disk' = r.file
           /\ sys' = r.sys
           /\ result' = OsCall("killOccupier",
                               [port |-> port, options |-> options], r)
  /\ clock' = clock + 1
  /\ UNCHANGED <<defaultRange, uuids, prev, handed, inflight>>

\* The caller takes the result and the call is over.
OsReturn ==
  /\ result.op # "none"
  /\ clock < MaxCalls
  /\ result' = NoCall
  /\ UNCHANGED <<disk, defaultRange, clock, uuids, prev, handed, sys,
                 inflight>>

OsNext ==
  \/ OsListen
  \/ OsExit
  \/ OsAllocate
  \/ OsAllocateGroup
  \/ OsRelease
  \/ OsReleaseGroup
  \/ OsReserve
  \/ OsKillOccupier
  \/ OsReturn

SpecOs == OsInit /\ [][OsNext]_vars

----------------------------------------------------------------------------
(* Properties of the calls on a persistent system *)

\* the ports the last call recorded in the registry
Recorded ==
  IF ~result.ok THEN {}
  ELSE IF result.op = "reserve" THEN {result.args.port}
  ELSE IF result.op \in {"allocate", "allocateGroup"}
  THEN Keys(disk) \ Keys(result.pre)
  ELSE {}

\* C11 as stated: while no outside process has bound or freed a port, every
\* port that is a key of the registry is observed in use by probe.
C11_RegisteredPortsObservedInUse ==
  ~sys.outside => \A p \in Keys(disk) : probe(sys, p).inUse

\* C11: every port that allocate, reserve or allocateGroup has just recorded
\* was reported available by the call's probe of it and is left unbound by
\* the call, so that probe observes it as available right after the call.
C11_RecordedPortsWereProbedFree ==
  \A p \in Recorded :
    /\ p \in ProbedAvailable
    /\ p \notin Listening(sys)
    /\ ~probe(sys, p).inUse

C11_Witness ==
  /\ result.op \in {"allocate", "reserve", "allocateGroup"}
  /\ ~sys.outside
  /\ Listening(sys) # {}
  /\ \E p \in Recorded : p \in Keys(disk) /\ ~probe(sys, p).inUse

----------------------------------------------------------------------------
(* src/index.js: acquirePort in concurrent processes *)

\* The registry of index.js is loaded and saved as the PortManager's is; its
\* records are {allocatedAt, pid}.

NoPid == 0

\* getPortPid(port): the pid PowerShell reports for the port, null (NoPid)
\* when no process is bound or when the command fails
getPortPid(s, port, tool) ==
  IF port \in Listening(s) /\ tool # "failed" THEN s.listen[port] ELSE NoPid

\* process.kill(pid, 0) does not throw
processExists(s, pid) == pid \in s.alive

\* isPortFree as it would be if it dropped the stale entry from the loaded
\* registry without saving it
isPortFreeForgetsSave(file, s, port, registry, tool) ==
  LET systemPid == getPortPid(s, port, tool)
  IN  IF systemPid # NoPid
      THEN [free |-> FALSE, registry |-> registry, file |-> file,
            systemPid |-> systemPid]
      ELSE IF Has(registry.allocations, port)
      THEN IF processExists(s, registry.allocations[Key(port)].pid)
           THEN [free |-> FALSE, registry |-> registry, file |-> file,
                 systemPid |-> systemPid]
           ELSE [free |-> TRUE,
                 registry |-> [registry EXCEPT
                                 !.allocations = Delete(@, port)],
                 file |-> file, systemPid |-> systemPid]
      ELSE [free |-> TRUE, registry |-> registry, file |-> file,
            systemPid |-> systemPid]

\* isPortFree(port, registry) with the registry file and the system s:
\* whether the port is free, the caller's registry object and the file after
\* the check.
isPortFree(file, s, port, registry, tool) ==
  LET systemPid == getPortPid(s, port, tool)
      evicted == [registry EXCEPT !.allocations = Delete(@, port)]
  IN  IF systemPid # NoPid
      THEN [free |-> FALSE, registry |-> registry, file |-> file,
            systemPid |-> systemPid]
      ELSE IF Has(registry.allocations, port)
      THEN IF processExists(s, registry.allocations[Key(port)].pid)
           THEN [free |-> FALSE, registry |-> registry, file |-> file,
                 systemPid |-> systemPid]
           ELSE [free |-> TRUE, registry |-> evicted,
                 file |-> saveRegistry(evicted), systemPid |-> systemPid]
      ELSE [free |-> TRUE, registry |-> registry, file |-> file,
            systemPid |-> systemPid]

\* the program counter of a process: not started, started, in the for loop
\* of acquirePort before isPortFree, after isPortFree returned true, after
\* acquirePort returned, after process.exit(1), ended
NewProcess == [pc |-> "new"]

AcquireInit ==
  /\ disk \in {AbsentFile, CorruptFile}
  /\ defaultRange = [start |-> PortBase, end |-> LastPort]
  /\ clock = 0
  /\ uuids = 0
  /\ result = NoCall
  /\ prev = Digest(NoCall)
  /\ handed = {}
  /\ sys = NoSys
  /\ inflight = [pid \in Pids |-> NewProcess]

\* A process starts.
ProcStart ==
  /\ \E pid \in Pids \ sys.alive :
       /\ inflight[pid].pc = "new"
       /\ pid = Min({q \in Pids : inflight[q].pc = "new"})
       /\ inflight' = [inflight EXCEPT ![pid] = [pc |-> "started"]]
       /\ sys' = [sys EXCEPT !.alive = @ \cup {pid}]
  /\ result' = NoCall
  /\ UNCHANGED <<disk, defaultRange, clock, uuids, prev, handed>>

\* A process that has not called acquirePort binds a free port.
ProcListen ==
  /\ \E pid \in Pids, port \in Ports \ Listening(sys) :
       /\ inflight[pid].pc = "started"
       /\ BoundBy(sys, pid) = {}
       /\ sys' = Bind(sys, pid, port)
  /\ result' = NoCall
  /\ UNCHANGED <<disk, defaultRange, clock, uuids, prev, handed, inflight>>

\* A process ends without releasing what it acquired.
ProcEnd ==
  /\ \E pid \in Pids :
       /\ inflight[pid].pc = "done"
       /\ inflight' = [inflight EXCEPT ![pid] = [pc |-> "ended"]]
       /\ sys' = Exit(sys, pid)
  /\ result' = NoCall
  /\ UNCHANGED <<disk, defaultRange, clock, uuids, prev, handed>>

\* acquirePort(preferred, 2) up to the for loop: const registry =
\* loadRegistry()
AcquireLoad ==
  /\ \E pid \in Pids, preferred \in {PortBase, PortBase + 1} :
       /\ inflight[pid].pc = "started"
       /\ inflight' = [inflight EXCEPT ![pid] =
                         [pc |-> "scan", registry |-> loadRegistry(disk),
                          port |-> preferred,
                          limit |-> preferred + 2]]
  /\ result' = NoCall
  /\ UNCHANGED <<disk, defaultRange, clock, uuids, prev, handed, sys>>

\* One turn of the for loop: await isPortFree(port, registry).  The variable
\* result holds the record of the check while it is the last step taken.
AcquireCheck ==
  /\ \E pid \in Pids, tool \in {"named", "failed"} :
       /\ inflight[pid].pc = "scan"
       /\ LET me == inflight[pid]
              r == isPortFree(disk, sys, me.port, me.registry, tool)
          IN  /\ disk' = r.file
              /\ result' = [op |-> "isPortFree", pid |-> pid,
                            port |-> me.port, registry |-> me.registry,
                            free |-> r.free, systemPid |-> r.systemPid,
                            pre |-> disk, alive |-> sys.alive]
              /\ inflight' = [inflight EXCEPT ![pid] =
                   IF r.free THEN [me EXCEPT !.pc = "take",
                                             !.registry = r.registry]
                   ELSE IF ~(me.port + 1 < me.limit)
                   THEN [pc |-> "exited"]
                   ELSE [me EXCEPT !.port = @ + 1]]
              /\ sys' = IF ~r.free /\ ~(me.port + 1 < me.limit)
                        THEN Exit(sys, pid) ELSE sys
  /\ UNCHANGED <<defaultRange, clock, uuids, prev, handed>>

\* registry.allocations[port] = {allocatedAt, pid: process.pid};
\* saveRegistry(registry); return port
AcquireTake ==
  /\ \E pid \in Pids :
       /\ inflight[pid].pc = "take"
       /\ LET me == inflight[pid]
              info == [allocatedAt |-> Timestamp(clock), pid |-> pid]
              registry == [me.registry EXCEPT
                             !.allocations = Put(@, me.port, info)]
          IN  /\ disk' = saveRegistry(registry)
              /\ inflight' = [inflight EXCEPT ![pid] =
                                [pc |-> "done", value |-> me.port]]
  /\ result' = NoCall
  /\ UNCHANGED <<defaultRange, clock, uuids, prev, handed, sys>>

AcquireNext ==
  \/ ProcStart
  \/ ProcListen
  \/ ProcEnd
  \/ AcquireLoad
  \/ AcquireCheck
  \/ AcquireTake

SpecAcquire == AcquireInit /\ [][AcquireNext]_vars

----------------------------------------------------------------------------
(* Properties of acquirePort *)

\* the last step was an availability check of a port whose entry in the
\* scan's registry names a process that no longer exists
StaleChecked ==
  /\ result.op = "isPortFree"
  /\ Has(result.registry.allocations, result.port)
  /\ result.registry.allocations[Key(result.port)].pid \notin result.alive

\* C12 as stated: the availability check of a port with a stale entry
\* removes the entry from the persisted registry and reports the port free.
C12_StaleEntryEvicted ==
  StaleChecked => result.free /\ result.port \notin Keys(disk)

\* C12: the availability check of a port with a stale entry, when the system
\* check finds no process bound to the port, persists the scan's registry
\* without the entry and reports the port free; when it finds a process bound
\* to the port, it reports the port in use and writes nothing.
C12_StaleEntryEvictedUnlessBound ==
  StaleChecked =>
    IF result.systemPid = NoPid
    THEN /\ result.free
         /\ result.port \notin Keys(disk)
         /\ Allocs(disk) = Delete(result.registry.allocations, result.port)
    ELSE ~result.free /\ disk = result.pre

C12_Witness ==
  /\ StaleChecked
  /\ result.systemPid = NoPid
  /\ result.port \in Keys(result.pre)
  /\ result.port \notin Keys(disk)
  /\ inflight[result.pid].pc = "take"

----------------------------------------------------------------------------
(* Properties of reserve and killOccupier *)

\* the last call was given options.killIfOccupied
KillAsked ==
  /\ "killIfOccupied" \in DOMAIN result.args.options
  /\ result.args.options.killIfOccupied

\* the last call was given options.force
ForceAsked ==
  /\ "force" \in DOMAIN result.args.options
  /\ result.args.options.force

\* C13: reserve without killIfOccupied on a port with a detected occupier
\* throws an error that names the occupier's process name and pid, attempts
\* no termination and leaves the registry file and the system as they were.
C13_OccupiedReserveFailsUntouched ==
  (result.op = "reserve" /\ ~KillAsked /\ result.detected # Null) =>
    /\ ~result.ok
    /\ result.error =
         "Port " \o ToString(result.args.port) \o " is occupied by "
           \o result.detected.processName \o " (PID: "
           \o ToString(result.preSys.listen[result.args.port])
           \o "). Use killIfOccupied option to force."
    /\ result.kills = <<>>
    /\ result.writes = 0
    /\ disk = result.pre
    /\ sys = result.preSys

C13_Witness ==
  /\ result.op = "reserve"
  /\ ~KillAsked
  /\ result.detected # Null
  /\ result.detected.processName = comm(result.detected.pid)
  /\ result.args.port \in Keys(disk)
  /\ ~result.ok

\* the steps of reserve's kill path, as far as the call can get
KillPathRefused == <<"detect", "detect", "terminate">>
KillPathUndetected == <<"detect", "detect">>
KillPathStillBound ==
  <<"detect", "detect", "terminate", "release", "wait", "probe">>
KillPathDone ==
  <<"detect", "detect", "terminate", "release", "wait", "probe", "write">>

\* C14: in reserve's kill path the steps are terminate, wait, one re-probe,
\* registry write, in this order; the port is recorded only after the one
\* termination reported success and the one re-probe reported the port
\* available; when the re-probe reports it unavailable the call throws the
\* still-unavailable error, the registry has no record of the port, and
\* nothing is attempted again.
C14_KillPathOrder ==
  (result.op = "reserve" /\ KillAsked /\ result.detected # Null) =>
    LET port == result.args.port
    IN  /\ result.trace \in {KillPathRefused, KillPathUndetected,
                             KillPathStillBound, KillPathDone}
        /\ Len(result.kills) <= 1
        /\ Len(result.probes) <= 1
        /\ \A i \in 1..Len(result.kills) :
             /\ result.kills[i].pid = result.preSys.listen[port]
             /\ result.kills[i].force = ForceAsked
        /\ result.ok <=> result.trace = KillPathDone
        /\ result.ok =>
             /\ Len(result.kills) = 1
             /\ result.probes = <<[port |-> port, available |-> TRUE]>>
             /\ port \in Keys(disk)
             /\ Record(disk, port).allocatedAt = Timestamp(clock - 1)
             /\ result.writes >= 1
        /\ result.probes = <<[port |-> port, available |-> FALSE]>> =>
             /\ ~result.ok
             /\ result.trace = KillPathStillBound
             /\ result.error = "Port " \o ToString(port)
                                 \o " is still not available after killing process"
             /\ port \notin Keys(disk)
        /\ result.trace \in {KillPathRefused, KillPathUndetected} =>
             /\ ~result.ok
             /\ result.probes = <<>>
             /\ disk = result.pre

C14_Witness ==
  /\ result.op = "reserve"
  /\ KillAsked
  /\ result.ok
  /\ result.trace = KillPathDone
  /\ result.args.port \in Keys(result.pre)
  /\ result.preSys.alive # sys.alive

\* reserve's kill path ended on a re-probe that found the port still bound
C14_WitnessStillBound ==
  /\ result.op = "reserve"
  /\ KillAsked
  /\ result.trace = KillPathStillBound
  /\ result.args.port \in Keys(result.pre)

\* C15: reserve on a port with no detected occupier probes the port once; if
\* the probe reports it available the call adds or replaces the record of
\* exactly that port, with metadata options.metadata or {}, and returns
\* {port, wasOccupied: false}; if not, the call throws and the registry file
\* is unchanged.  No successful reserve records a port whose last probe
\* reported it unavailable.
C15_ReserveFreePort ==
  result.op = "reserve" =>
    LET port == result.args.port
        options == result.args.options
    IN  /\ result.ok =>
             /\ result.probes # <<>>
             /\ result.probes[Len(result.probes)] =
                  [port |-> port, available |-> TRUE]
             /\ port \notin Listening(sys)
        /\ result.detected = Null =>
             /\ Len(result.probes) = 1
             /\ result.probes[1].port = port
             /\ result.probes[1].available <=>
                  port \notin Listening(result.preSys)
             /\ result.kills = <<>>
             /\ sys = result.preSys
             /\ IF result.probes[1].available
                THEN /\ result.ok
                     /\ result.value = [port |-> port, wasOccupied |-> FALSE]
                     /\ Keys(disk) = Keys(result.pre) \cup {port}
                     /\ Record(disk, port) =
                          [allocatedAt |-> Timestamp(clock - 1),
                           metadata |->
                             IF "metadata" \in DOMAIN options
                             THEN options.metadata ELSE EmptyObject]
                     /\ OthersUnchanged(result.pre, {port})
                     /\ result.writes = 1
                ELSE /\ ~result.ok
                     /\ result.error = "Port " \o ToString(port)
                                         \o " is not available"
                     /\ result.writes = 0
                     /\ disk = result.pre

C15_Witness ==
  /\ result.op = "reserve"
  /\ result.detected = Null
  /\ result.ok
  /\ "metadata" \in DOMAIN result.args.options
  /\ Keys(result.pre) \ {result.args.port} # {}
  /\ Listening(sys) # {}

\* reserve found no occupier and its probe found the port bound
C15_WitnessUnavailable ==
  /\ result.op = "reserve"
  /\ result.detected = Null
  /\ ~result.ok
  /\ Keys(result.pre) # {}

\* C16: killOccupier returns {killed: false, reason: "Port not in use"} and
\* leaves the registry file unchanged when it detects no occupier; returns
\* killed false with the occupier's pid and leaves the file unchanged when
\* the termination fails; returns killed true when it succeeds, and then the
\* port is not a key of the registry and every other record is unchanged.
C16_KillOccupierOutcomes ==
  result.op = "killOccupier" =>
    LET port == result.args.port
    IN  /\ result.ok
        /\ IF result.detected = Null
           THEN /\ result.value = [killed |-> FALSE, reason |-> "Port not in use"]
                /\ result.kills = <<>>
                /\ disk = result.pre
                /\ sys = result.preSys
           ELSE /\ result.kills = <<[pid |-> result.preSys.listen[port],
                                     force |-> ForceAsked]>>
                /\ result.value.pid = result.preSys.listen[port]
                /\ result.value.processName = result.detected.processName
                /\ IF result.value.killed
                   THEN /\ port \notin Keys(disk)
                        /\ Keys(disk) = Keys(result.pre) \ {port}
                        /\ OthersUnchanged(result.pre, {port})
                   ELSE /\ disk = result.pre
                        /\ sys = result.preSys

C16_Witness ==
  /\ result.op = "killOccupier"
  /\ result.detected # Null
  /\ result.value.killed
  /\ result.args.port \in Keys(result.pre)
  /\ Keys(disk) # {}
  /\ sys # result.preSys

\* killOccupier's termination failed on a registered port
C16_WitnessRefused ==
  /\ result.op = "killOccupier"
  /\ result.detected # Null
  /\ ~result.value.killed
  /\ result.args.port \in Keys(disk)

----------------------------------------------------------------------------
(* The queries of PortManager *)

\* info.metadata?.<name>, undefined when the record or its metadata has no
\* such property
MetadataOf(info, name) ==
  IF "metadata" \in DOMAIN info /\ name \in DOMAIN info.metadata
  THEN info.metadata[name]
  ELSE Undefined

\* a || b on strings
OrElse(a, b) == IF a \in {Undefined, ""} THEN b ELSE a

\* {port: Number(port), ...info}
WithPort(port, info) ==
  [k \in DOMAIN info \cup {"port"} |-> IF k = "port" THEN port ELSE info[k]]

\* listAllocations as it would be if it saved the registry it loaded
listAllocationsSaves(file) ==
  LET registry == loadRegistry(file)
      e == Entries(registry.allocations)
  IN  [file |-> saveRegistry(registry), writes |-> 1,
       value |-> [i \in 1..Len(e) |->
                    [port |-> e[i],
                     allocatedAt |-> registry.allocations[Key(e[i])].allocatedAt,
                     metadata |-> registry.allocations[Key(e[i])].metadata]]]

\* listAllocations(): the registry file after the call and the list returned
listAllocations(file) ==
  LET registry == loadRegistry(file)
      e == Entries(registry.allocations)
  IN  [file |-> file, writes |-> 0,
       value |-> [i \in 1..Len(e) |->
                    [port |-> e[i],
                     allocatedAt |-> registry.allocations[Key(e[i])].allocatedAt,
                     metadata |-> registry.allocations[Key(e[i])].metadata]]]

\* the app of a record as it would be without the legacy workspace field
AppOfAppOnly(info) == MetadataOf(info, "app")

\* info.metadata?.app || info.metadata?.workspace
AppOf(info) == OrElse(MetadataOf(info, "app"), MetadataOf(info, "workspace"))

getPortsByApp(file, app) ==
  LET allocations == loadRegistry(file).allocations
      Matches(port) == AppOf(allocations[Key(port)]) = app
      e == SelectSeq(Entries(allocations), Matches)
  IN  [file |-> file, writes |-> 0,
       value |-> [i \in 1..Len(e) |-> WithPort(e[i], allocations[Key(e[i])])]]

getPortsByWorktree(file, worktree) ==
  LET allocations == loadRegistry(file).allocations
      Matches(port) == MetadataOf(allocations[Key(port)], "worktree") = worktree
      e == SelectSeq(Entries(allocations), Matches)
  IN  [file |-> file, writes |-> 0,
       value |-> [i \in 1..Len(e) |-> WithPort(e[i], allocations[Key(e[i])])]]

\* info.<name> || missing
FieldOf(info, name, missing) ==
  IF name \in DOMAIN info THEN OrElse(info[name], missing) ELSE missing

\* getAllGrouped(): grouped[app][worktree] is the list of the ports of this
\* app and worktree, each with what detectOccupier reports for it
getAllGrouped(file, s, tool) ==
  LET allocations == loadRegistry(file).allocations
      e == Entries(allocations)
      App(port) == OrElse(AppOf(allocations[Key(port)]), "default")
      Worktree(port) ==
        OrElse(MetadataOf(allocations[Key(port)], "worktree"), "default")
      Item(port) ==
        LET info == allocations[Key(port)]
            occupier == detectOccupier(s, port, tool)
        IN  [port |-> port, role |-> FieldOf(info, "role", "unknown"),
             groupId |-> GroupIdOf(info), allocatedAt |-> info.allocatedAt,
             status |-> IF occupier # Null THEN "active" ELSE "free",
             process |-> occupier, metadata |-> info.metadata]
      apps == {App(e[i]) : i \in 1..Len(e)}
      Worktrees(app) == {Worktree(e[i]) : i \in {j \in 1..Len(e) : App(e[j]) = app}}
  IN  [file |-> file, writes |-> 0,
       value |-> [app \in apps |-> [worktree \in Worktrees(app) |->
          LET In(port) == App(port) = app /\ Worktree(port) = worktree
              own == SelectSeq(e, In)
          IN  [i \in 1..Len(own) |-> Item(own[i])]]]]

\* getGroups as it would be if a group kept only the port that created its
\* entry
getGroupsKeepsFirstPort(file) ==
  LET allocations == loadRegistry(file).allocations
      e == Entries(allocations)
      Grouped(port) == GroupIdOf(allocations[Key(port)]) \notin {Undefined, ""}
      ids == {GroupIdOf(allocations[Key(e[i])]) :
                i \in {j \in 1..Len(e) : Grouped(e[j])}}
  IN  [file |-> file, writes |-> 0,
       value |-> [id \in ids |->
          LET In(port) == GroupIdOf(allocations[Key(port)]) = id
              own == SelectSeq(e, In)
          IN  [groupId |-> id,
               ports |-> <<[port |-> own[1],
                            role |-> allocations[Key(own[1])].role]>>,
               metadata |-> allocations[Key(own[1])].metadata]]]

\* getGroups(): for each group id its ports and the metadata of its first
\* record
getGroups(file) ==
  LET allocations == loadRegistry(file).allocations
      e == Entries(allocations)
      Grouped(port) == GroupIdOf(allocations[Key(port)]) \notin {Undefined, ""}
      ids == {GroupIdOf(allocations[Key(e[i])]) :
                i \in {j \in 1..Len(e) : Grouped(e[j])}}
  IN  [file |-> file, writes |-> 0,
       value |-> [id \in ids |->
          LET In(port) == GroupIdOf(allocations[Key(port)]) = id
              own == SelectSeq(e, In)
          IN  [groupId |-> id,
               ports |-> [i \in 1..Len(own) |->
                            [port |-> own[i],
                             role |-> allocations[Key(own[i])].role]],
               metadata |-> allocations[Key(own[1])].metadata]]]

----------------------------------------------------------------------------
(* Queries on a registry that allocate and allocateGroup have filled *)

QueryMetadatas ==
  {EmptyObject, [app |-> "web"], [workspace |-> "web", worktree |-> "main"]}

\* the app and worktree names a caller may ask for
Names == {"web", "main", "default"}

QueryOps ==
  {"probe", "detectOccupier", "listAllocations", "getPortsByApp",
   "getPortsByWorktree", "getAllGrouped", "getGroups"}

\* The record of a query: r is what the query's operator yields.
Query(op, args, r) ==
  [op |-> op, args |-> args, ok |-> TRUE, value |-> r.value,
   error |-> Undefined, probes |-> <<>>, writes |-> r.writes,
   pre |-> disk, preSys |-> sys]

QueryAllocate ==
  /\ result.op = "none"
  /\ clock < MaxCalls
  /\ \E metadata \in QueryMetadatas :
       LET r == allocate(disk, defaultRange, metadata, Listening(sys), clock)
       IN  /\ disk' = r.file
           /\ result' = OsCall("allocate",
                               [range |-> defaultRange,
                                metadata |-> metadata], r)
  /\ clock' = clock + 1
  /\ UNCHANGED <<defaultRange, uuids, prev, handed, sys, inflight>>

Probes ==
  /\ result.op = "none"
  /\ \E port \in Ports :
       /\ result' = Query("probe", [port |-> port],
                          [value |-> probe(sys, port), writes |-> 0])
       /\ disk' = disk
  /\ UNCHANGED <<defaultRange, clock, uuids, prev, handed, sys, inflight>>

DetectsOccupier ==
  /\ result.op = "none"
  /\ \E port \in Ports, tool \in Tools :
       /\ result' = Query("detectOccupier", [port |-> port],
                          [value |-> detectOccupierOf(sys, port, tool),
                           writes |-> 0])
       /\ disk' = disk
  /\ UNCHANGED <<defaultRange, clock, uuids, prev, handed, sys, inflight>>

ListsAllocations ==
  /\ result.op = "none"
  /\ LET r == listAllocations(disk)
     IN  /\ result' = Query("listAllocations", EmptyObject, r)
         /\ disk' = r.file
  /\ UNCHANGED <<defaultRange, clock, uuids, prev, handed, sys, inflight>>

GetsPortsByApp ==
  /\ result.op = "none"
  /\ \E app \in Names :
       LET r == getPortsByApp(disk, app)
       IN  /\ result' = Query("getPortsByApp", [app |-> app], r)
           /\ disk' = r.file
  /\ UNCHANGED <<defaultRange, clock, uuids, prev, handed, sys, inflight>>

GetsPortsByWorktree ==
  /\ result.op = "none"
  /\ \E worktree \in Names :
       LET r == getPortsByWorktree(disk, worktree)
       IN  /\ result' = Query("getPortsByWorktree", [worktree |-> worktree], r)
           /\ disk' = r.file
  /\ UNCHANGED <<defaultRange, clock, uuids, prev, handed, sys, inflight>>

GetsAllGrouped ==
  /\ result.op = "none"
  /\ \E tool \in Tools :
       LET r == getAllGrouped(disk, sys, tool)
       IN  /\ result' = Query("getAllGrouped", EmptyObject, r)
           /\ disk' = r.file
  /\ UNCHANGED <<defaultRange, clock, uuids, prev, handed, sys, inflight>>

GetsGroups ==
  /\ result.op = "none"
  /\ LET r == getGroups(disk)
     IN  /\ result' = Query("getGroups", EmptyObject, r)
         /\ disk' = r.file
  /\ UNCHANGED <<defaultRange, clock, uuids, prev, handed, sys, inflight>>

\* The caller takes the answer.
QueryReturn ==
  /\ result.op # "none"
  /\ result' = NoCall
  /\ UNCHANGED <<disk, defaultRange, clock, uuids, prev, handed, sys,
                 inflight>>

QueryNext ==
  \/ OsListen
  \/ QueryAllocate
  \/ OsAllocateGroup
  \/ Probes
  \/ DetectsOccupier
  \/ ListsAllocations
  \/ GetsPortsByApp
  \/ GetsPortsByWorktree
  \/ GetsAllGrouped
  \/ GetsGroups
  \/ QueryReturn

SpecQuery == OsInit /\ [][QueryNext]_vars

\* C17: probe, detectOccupier, listAllocations, getPortsByApp,
\* getPortsByWorktree, getAllGrouped and getGroups leave the registry file
\* as it was before the call.
C17_QueriesWriteNothing ==
  result.op \in QueryOps =>
    /\ disk = result.pre
    /\ result.writes = 0
    /\ sys = result.preSys

C17_Witness ==
  /\ result.op = "getAllGrouped"
  /\ result.pre.kind = "json"
  /\ "web" \in DOMAIN result.value
  /\ "main" \in DOMAIN result.value["web"]
  /\ result.value["web"]["main"][1].port \in Keys(disk)
  /\ result.value["web"]["main"][1].status = "active"

\* a query answered from a registry file that does not exist
C17_WitnessAbsent ==
  /\ result.op = "listAllocations"
  /\ result.value = <<>>
  /\ disk = AbsentFile

----------------------------------------------------------------------------
(* Registry files that parse but hold no registry *)

\* A file whose text is {} and a file whose text is null: JSON.parse
\* succeeds, and loadRegistry returns what it yields.
EmptyObjectFile == [kind |-> "json", json |-> EmptyObject]
NullFile == [kind |-> "json", json |-> Null]

\* the files on which loadRegistry returns the empty registry by itself
FreshFiles == {AbsentFile, CorruptFile}

\* the message of the TypeError that reading or writing a property of
\* undefined or null throws
TypeError == "TypeError"

\* registry.allocations is an object: registry.allocations[port] and
\* Object.entries(registry.allocations) can be evaluated
HasAllocations(registry) == "allocations" \in DOMAIN registry

Throws(file, error) ==
  [file |-> file, ok |-> FALSE, value |-> Undefined, error |-> error,
   probes |-> <<>>, writes |-> 0]

\* What a method that reads registry.allocations of the loaded registry
\* does on file: r on a registry, a TypeError otherwise.
ReadingAllocations(file, r) ==
  IF HasAllocations(loadRegistry(file)) THEN r ELSE Throws(file, TypeError)

\* cleanup as it would be if it reported success without writing
cleanupSkipsSave(file) ==
  [file |-> file, ok |-> TRUE, value |-> [cleaned |-> TRUE],
   error |-> Undefined, probes |-> <<>>, writes |-> 0]

\* cleanup(): registry.allocations = {} on the loaded registry, then save
cleanup(file) ==
  LET registry == loadRegistry(file)
  IN  IF registry = Null THEN Throws(file, TypeError)
      ELSE [file |-> saveRegistry(
                       [k \in DOMAIN registry \cup {"allocations"} |->
                          IF k = "allocations" THEN EmptyObject
                          ELSE registry[k]]),
            ok |-> TRUE, value |-> [cleaned |-> TRUE], error |-> Undefined,
            probes |-> <<>>, writes |-> 1]

\* The record of a call, with what the same call yields on a registry file
\* that does not exist.
LoadCall(op, args, r, fresh) ==
  [op |-> op, args |-> args, ok |-> r.ok, value |-> r.value,
   error |-> r.error, probes |-> r.probes, writes |-> r.writes,
   pre |-> disk, fresh |-> fresh]

LoadInit ==
  /\ disk \in FreshFiles \cup {EmptyObjectFile, NullFile}
  /\ defaultRange = [start |-> PortBase, end |-> LastPort]
  /\ clock = 0
  /\ uuids = 0
  /\ result = NoCall
  /\ prev = Digest(NoCall)
  /\ handed = {}
  /\ sys = NoSys
  /\ inflight = NoInflight

LoadAllocate ==
  /\ result.op = "none"
  /\ clock < MaxCalls
  /\ \E metadata \in Metadatas, os \in {{}, {PortBase}} :
       LET r == ReadingAllocations(disk,
                  allocate(disk, defaultRange, metadata, os, clock))
       IN  /\ disk' = r.file
           /\ result' = LoadCall("allocate", [metadata |-> metadata], r,
                           allocate(AbsentFile, defaultRange, metadata, os,
                                    clock))
  /\ clock' = clock + 1
  /\ UNCHANGED <<defaultRange, uuids, prev, handed, sys, inflight>>

LoadRelease ==
  /\ result.op = "none"
  /\ clock < MaxCalls
  /\ \E port \in Ports :
       LET r == ReadingAllocations(disk, release(disk, port))
       IN  /\ disk' = r.file
           /\ result' = LoadCall("release", [port |-> port], r,
                                 release(AbsentFile, port))
  /\ clock' = clock + 1
  /\ UNCHANGED <<defaultRange, uuids, prev, handed, sys, inflight>>

\* reserve of a port that is not bound: the probe answers before the
\* registry is loaded
LoadReserve ==
  /\ result.op = "none"
  /\ clock < MaxCalls
  /\ \E port \in Ports :
       LET probed == <<Probe(Listening(sys), port)>>
           r == ReadingAllocations(disk,
                  reserve(disk, sys, port, EmptyObject, "named", "named",
                          "exits", clock))
       IN  /\ disk' = r.file
           /\ result' = LoadCall("reserve", [port |-> port],
                           [r EXCEPT !.probes = probed],
                           reserve(AbsentFile, sys, port, EmptyObject,
                                   "named", "named", "exits", clock))
  /\ clock' = clock + 1
  /\ UNCHANGED <<defaultRange, uuids, prev, handed, sys, inflight>>

LoadAllocateGroup ==
  /\ result.op = "none"
  /\ clock < MaxCalls
  /\ \E count \in 1..MaxCount :
       LET r == ReadingAllocations(disk,
                  allocateGroup(disk, defaultRange, count, EmptyObject, <<>>,
                                {}, clock, randomUUID(uuids)))
       IN  /\ disk' = r.file
           /\ result' = LoadCall("allocateGroup", [count |-> count], r,
                           allocateGroup(AbsentFile, defaultRange, count,
                                         EmptyObject, <<>>, {}, clock,
                                         randomUUID(uuids)))
  /\ uuids' = uuids + 1
  /\ clock' = clock + 1
  /\ UNCHANGED <<defaultRange, prev, handed, sys, inflight>>

LoadReleaseGroup ==
  /\ result.op = "none"
  /\ clock < MaxCalls
  /\ \E groupId \in GroupIdArgs :
       LET r == ReadingAllocations(disk, releaseGroup(disk, groupId))
       IN  /\ disk' = r.file
           /\ result' = LoadCall("releaseGroup", [groupId |-> groupId], r,
                                 releaseGroup(AbsentFile, groupId))
  /\ clock' = clock + 1
  /\ UNCHANGED <<defaultRange, uuids, prev, handed, sys, inflight>>

LoadList ==
  /\ result.op = "none"
  /\ clock < MaxCalls
  /\ LET r == ReadingAllocations(disk,
                [listAllocations(disk) EXCEPT !.writes = 0] @@
                  [ok |-> TRUE, error |-> Undefined, probes |-> <<>>])
     IN  /\ disk' = r.file
         /\ result' = LoadCall("listAllocations", EmptyObject, r,
                         listAllocations(AbsentFile) @@
                           [ok |-> TRUE, error |-> Undefined,
                            probes |-> <<>>])
  /\ clock' = clock + 1
  /\ UNCHANGED <<defaultRange, uuids, prev, handed, sys, inflight>>

LoadCleanup ==
  /\ result.op = "none"
  /\ clock < MaxCalls
  /\ LET r == cleanup(disk)
     IN  /\ disk' = r.file
         /\ result' = LoadCall("cleanup", EmptyObject, r, cleanup(AbsentFile))
  /\ clock' = clock + 1
  /\ UNCHANGED <<defaultRange, uuids, prev, handed, sys, inflight>>

LoadNext ==
  \/ LoadAllocate
  \/ LoadRelease
  \/ LoadReserve
  \/ LoadAllocateGroup
  \/ LoadReleaseGroup
  \/ LoadList
  \/ LoadCleanup
  \/ OsReturn

SpecLoad == LoadInit /\ [][LoadNext]_vars

\* C18: on a registry file that is absent, unparsable, or parseable without
\* being a registry, every operation ends as it does on an empty registry:
\* it returns or throws the same, and leaves the same registry.
C18_CorruptLoadsAsEmpty ==
  (/\ result.op # "none"
   /\ result.pre \in FreshFiles \cup {EmptyObjectFile, NullFile}) =>
    /\ result.ok = result.fresh.ok
    /\ result.error = result.fresh.error
    /\ result.ok => /\ result.value = result.fresh.value
                    /\ loadRegistry(disk) = loadRegistry(result.fresh.file)

----------------------------------------------------------------------------
(* Concurrent invocations of PortManager.allocate on one registry file *)

\* allocateFrom as it would be if the registry were loaded again at the save
allocateFromReloads(file, registry, range, metadata, os, now) ==
  allocate(file, range, metadata, os, now)

\* allocate from its for loop on, with the registry its first line loaded:
\* file is the registry file at that time, which the call does not read
\* again.  The file it yields is the one it writes, if it writes.
allocateFrom(file, registry, range, metadata, os, now) ==
  allocate(saveRegistry(registry), range, metadata, os, now)

Idle == [pc |-> "idle"]

RaceInit ==
  /\ disk \in {AbsentFile, CorruptFile}
  /\ defaultRange = [start |-> PortBase, end |-> LastPort]
  /\ clock = 0
  /\ uuids = 0
  /\ result = NoCall
  /\ prev = Digest(NoCall)
  /\ handed = {}
  /\ sys = NoSys
  /\ inflight = [i \in Pids |-> Idle]

\* allocate(range, metadata) starts: const registry = loadRegistry(...),
\* and the call waits for its first probe
RaceLoad ==
  /\ \E i \in Pids, range \in Ranges, metadata \in Metadatas :
       /\ inflight[i].pc = "idle"
       /\ \A j \in Pids : j < i => inflight[j].pc # "idle"
       /\ inflight' = [inflight EXCEPT ![i] =
                         [pc |-> "loaded", registry |-> loadRegistry(disk),
                          range |-> range, metadata |-> metadata]]
  /\ result' = NoCall
  /\ UNCHANGED <<disk, defaultRange, clock, uuids, prev, handed, sys>>

\* The probes answer and the call runs to its end: it records the port in
\* the registry it loaded and saves it, or throws.
RaceFinish ==
  /\ \E i \in Pids :
       /\ inflight[i].pc = "loaded"
       /\ LET me == inflight[i]
              r == allocateFrom(disk, me.registry, me.range, me.metadata,
                                Listening(sys), clock)
          IN  /\ disk' = IF r.ok THEN r.file ELSE disk
              /\ result' = [op |-> "allocate", invocation |-> i,
                            ok |-> r.ok, value |-> r.value,
                            metadata |-> me.metadata,
                            snapshot |-> me.registry, pre |-> disk]
              /\ inflight' = [inflight EXCEPT ![i] =
                                [pc |-> IF r.ok THEN "done" ELSE "failed",
                                 value |-> r.value,
                                 snapshot |-> me.registry]]
  /\ clock' = clock + 1
  /\ UNCHANGED <<defaultRange, uuids, prev, handed, sys>>

\* release(port) has no await between its load and its save
RaceRelease ==
  /\ clock < MaxCalls
  /\ \E port \in Keys(disk) :
       disk' = release(disk, port).file
  /\ result' = NoCall
  /\ clock' = clock + 1
  /\ UNCHANGED <<defaultRange, uuids, prev, handed, sys, inflight>>

RaceNext == RaceLoad \/ RaceFinish \/ RaceRelease

SpecRace == RaceInit /\ [][RaceNext]_vars

\* C19: an allocate that saves leaves in the file exactly the registry it
\* loaded plus its own record, whatever the file held by then: two calls
\* that loaded the same snapshot return the same port and the file keeps one
\* record of it, the second writer's, and a record written between the load
\* and the save of a call is erased by that save.
C19_LastWriterWins ==
  (result.op = "allocate" /\ result.ok) =>
    /\ Allocs(disk) =
         Put(result.snapshot.allocations, result.value,
             [allocatedAt |-> Timestamp(clock - 1),
              metadata |-> result.metadata])
    /\ \A j \in Pids \ {result.invocation} :
         (inflight[j].pc = "done" /\ inflight[j].value \in Keys(disk)) =>
           \/ inflight[j].value = result.value
           \/ Has(result.snapshot.allocations, inflight[j].value)
    /\ Record(disk, result.value).metadata = result.metadata

\* two calls loaded the same snapshot, returned the same port, and the file
\* holds the one record of the second writer
C19_Witness ==
  /\ result.op = "allocate"
  /\ result.ok
  /\ \E j \in Pids \ {result.invocation} :
       /\ inflight[j].pc = "done"
       /\ inflight[j].snapshot = result.snapshot
       /\ inflight[j].value = result.value
  /\ result.value \in Keys(result.pre)
  /\ Record(result.pre, result.value) # Record(disk, result.value)

\* a save from a stale snapshot erased a record another call had written
C19_WitnessErased ==
  /\ result.op = "allocate"
  /\ result.ok
  /\ \E j \in Pids \ {result.invocation} :
       /\ inflight[j].pc = "done"
       /\ inflight[j].value \in Keys(result.pre)
       /\ inflight[j].value \notin Keys(disk)

----------------------------------------------------------------------------
(* acquirePort in processes that run at the same time *)

\* the processes whose acquirePort has returned and that still run
Holders == {pid \in Pids : inflight[pid].pc = "done"}

\* C20: no two acquirePort invocations running in different live processes
\* against the same registry file return the same port.
C20_NoTwoAcquireTheSamePort ==
  \A i \in Holders, j \in Holders :
    i # j => inflight[i].value # inflight[j].value

----------------------------------------------------------------------------
(* Calls with arbitrary port arguments *)

\* the port numbers a caller may pass: those of the modelled range, 0, and
\* the first number past the TCP ports
AnyPorts == Ports \cup {0, 65536}

AnyRanges ==
  Ranges \cup {[start |-> 0, end |-> 0], [start |-> 65536, end |-> 65536]}

\* server.listen(port) throws ERR_SOCKET_BAD_PORT unless port is an integer
\* of 0..65535; listen(0) binds a port the system picks, and succeeds
listenThrows(port) == port \notin 0..65535

RangeError == "RangeError"

ArgsAllocate ==
  /\ result.op = "none"
  /\ clock < MaxCalls
  /\ \E range \in AnyRanges :
       LET r == IF listenThrows(range.start)
                THEN Throws(disk, RangeError)
                ELSE allocate(disk, range, EmptyObject, Listening(sys), clock)
       IN  /\ disk' = r.file
           /\ result' = Call("allocate", [range |-> range], r)
  /\ clock' = clock + 1
  /\ UNCHANGED <<defaultRange, uuids, prev, handed, sys, inflight>>

ArgsReserve ==
  /\ result.op = "none"
  /\ clock < MaxCalls
  /\ \E port \in AnyPorts :
       LET r == IF listenThrows(port)
                THEN Throws(disk, RangeError)
                ELSE reserve(disk, sys, port, EmptyObject, "named", "named",
                             "exits", clock)
       IN  /\ disk' = r.file
           /\ result' = Call("reserve", [port |-> port], r)
  /\ clock' = clock + 1
  /\ UNCHANGED <<defaultRange, uuids, prev, handed, sys, inflight>>

ArgsRelease ==
  /\ result.op = "none"
  /\ clock < MaxCalls
  /\ \E port \in AnyPorts :
       LET r == release(disk, port)
       IN  /\ disk' = r.file
           /\ result' = Call("release", [port |-> port], r)
  /\ clock' = clock + 1
  /\ UNCHANGED <<defaultRange, uuids, prev, handed, sys, inflight>>

ArgsCleanup ==
  /\ result.op = "none"
  /\ clock < MaxCalls
  /\ LET r == cleanup(disk)
     IN  /\ disk' = r.file
         /\ result' = Call("cleanup", EmptyObject, r)
  /\ clock' = clock + 1
  /\ UNCHANGED <<defaultRange, uuids, prev, handed, sys, inflight>>

ArgsNext ==
  \/ ArgsAllocate
  \/ ArgsReserve
  \/ ArgsRelease
  \/ ArgsCleanup
  \/ OsReturn

SpecArgs == OsInit /\ [][ArgsNext]_vars

\* C21: every key of the allocations map is an integer TCP port of 1..65535.
C21_KeysAreTcpPorts ==
  \A k \in DOMAIN Allocs(disk) :
    \E p \in AnyPorts : Key(p) = k /\ p \in 1..65535

----------------------------------------------------------------------------
(* Records that outlive a call *)

\* C22: a call that removes no record leaves the allocatedAt of every port
\* that was a key of the registry before it as it was.
C22_AllocatedAtSetOnce ==
  (result.op # "none" /\ result.kills = <<>>) =>
    \A p \in Keys(result.pre) \cap Keys(disk) :
      Record(disk, p).allocatedAt = Record(result.pre, p).allocatedAt

----------------------------------------------------------------------------
(* What acquirePort checks *)

\* C23: a port that isPortFree reports free is, at the time of the check,
\* bound by no process and has no entry in the caller's registry whose
\* recorded pid is alive.
C23_FreeMeansUnboundAndUnheld ==
  (result.op = "isPortFree" /\ result.free) =>
    /\ result.port \notin Listening(sys)
    /\ ~(/\ Has(result.registry.allocations, result.port)
         /\ processExists(sys,
              result.registry.allocations[Key(result.port)].pid))

----------------------------------------------------------------------------
(* cleanup *)

\* C24: after cleanup() the registry has no allocation and listAllocations()
\* is empty, every other field of the registry (its version) is as before,
\* the call returned {cleaned: true}, and a second cleanup would leave the
\* registry file as it is.
C24_CleanupEmptiesTheRegistry ==
  result.op = "cleanup" =>
    /\ result.ok
    /\ result.value = [cleaned |-> TRUE]
    /\ Allocs(disk) = EmptyObject
    /\ listAllocations(disk).value = <<>>
    /\ loadRegistry(disk).version = loadRegistry(result.pre).version
    /\ loadRegistry(disk) =
         [loadRegistry(result.pre) EXCEPT !.allocations = EmptyObject]
    /\ cleanup(disk).file = disk

C24_Witness ==
  /\ result.op = "cleanup"
  /\ Allocs(result.pre) # EmptyObject
  /\ Allocs(disk) = EmptyObject

----------------------------------------------------------------------------
(* Accesses to the registry file within one call *)

\* the access sequences of a call that loads at most once and writes at most
\* once, the write last
OneLoadOneWrite == {<<>>, <<"load">>, <<"load", "save">>}

\* the last call was a reserve that terminated the occupier of its port
ReservedByKilling ==
  /\ result.op = "reserve"
  /\ result.kills # <<>>
  /\ "release" \in {result.trace[i] : i \in DOMAIN result.trace}

C25_WitnessOne ==
  /\ result.op = "allocate"
  /\ result.accesses = <<"load", "save">>

----------------------------------------------------------------------------
(* Groups across calls *)

\* the ports of file whose record carries the group id g
Members(file, g) == {p \in Keys(file) : GroupIdOf(Record(file, p)) = g}

\* the group ids carried by the records of file
GroupIdsIn(file) ==
  {GroupIdOf(Record(file, p)) : p \in Keys(file)} \ {Undefined}

\* C26 as stated: a call leaves every group of the registry it started from
\* with all of its members or with none.
C26_GroupsStayWhole ==
  \A g \in GroupIdsIn(result.pre) :
    Members(disk, g) \in {Members(result.pre, g), {}}

\* C26: allocateGroup persists all count ports of a new group or nothing,
\* and releaseGroup removes every member of the group it is given; allocate
\* and allocateGroup leave the groups of the registry as they were; release,
\* reserve and killOccupier take from a group at most the one port they were
\* given, whatever is left of the group.
C26_GroupsChangeByPortOrWhole ==
  result.op # "none" =>
    /\ \A g \in GroupIdsIn(result.pre) :
         IF result.op \in {"allocate", "allocateGroup"}
         THEN Members(disk, g) = Members(result.pre, g)
         ELSE IF result.op = "releaseGroup"
         THEN Members(disk, g) =
                IF g = result.args.groupId THEN {}
                ELSE Members(result.pre, g)
         ELSE /\ Members(disk, g) \subseteq Members(result.pre, g)
              /\ Members(result.pre, g) \ {result.args.port}
                   \subseteq Members(disk, g)
    /\ result.op = "allocateGroup" =>
         IF result.ok
         THEN /\ Members(result.pre, result.value.groupId) = {}
              /\ Cardinality(Members(disk, result.value.groupId)) =
                   result.args.count
         ELSE disk = result.pre

C26_Witness ==
  /\ result.op = "release"
  /\ \E g \in GroupIdsIn(result.pre) :
       /\ Cardinality(Members(result.pre, g)) = 2
       /\ Cardinality(Members(disk, g)) = 1

C26_WitnessWhole ==
  /\ result.op = "releaseGroup"
  /\ \E g \in GroupIdsIn(result.pre) :
       /\ Cardinality(Members(result.pre, g)) = 2
       /\ Members(disk, g) = {}

----------------------------------------------------------------------------
(* Sequences of group calls, the call before the last one kept whole *)

\* The caller takes the result of the call; what a successful allocateGroup
\* was given and what it returned stay known to the caller.
GroupReturn ==
  /\ result.op # "none"
  /\ clock < MaxCalls
  /\ prev' = IF result.op = "allocateGroup" /\ result.ok THEN result
             ELSE Digest(NoCall)
  /\ result' = NoCall
  /\ UNCHANGED <<disk, defaultRange, clock, uuids, handed, sys, inflight>>

GroupNext ==
  \/ Allocate
  \/ Release
  \/ AllocateGroup
  \/ ReleaseGroup
  \/ GroupReturn

SpecGroup == Init /\ [][GroupNext]_vars

\* the last call was a successful allocateGroup
GroupAllocated == result.op = "allocateGroup" /\ result.ok

\* the ports the last call added to the registry, in ascending order: the
\* order in which allocateGroup finds them
Found == Ascending(Keys(disk) \ Keys(result.pre))

\* the parts of C27 that do not depend on how a role is named
GroupRecordsPersisted ==
  /\ result.writes = 1
  /\ Len(Found) = result.args.count
  /\ Keys(result.pre) \subseteq Keys(disk)
  /\ OthersUnchanged(result.pre, {})
  /\ Members(result.pre, result.value.groupId) = {}
  /\ \A i \in 1..Len(Found) :
       /\ GroupIdOf(Record(disk, Found[i])) = result.value.groupId
       /\ Record(disk, Found[i]).metadata = result.args.metadata

\* C27 as stated: a successful allocateGroup persists count new records in
\* one write, changes no other record, gives them all one group id new to
\* the registry and a copy of metadata, and gives the i-th port found the role
\* roles[i] whenever roles has an i-th element, "port<i+1>" otherwise.
C27_GroupRecordsRoleAsGiven ==
  GroupAllocated =>
    /\ GroupRecordsPersisted
    /\ \A i \in 1..Len(Found) :
         Record(disk, Found[i]).role =
           IF i <= Len(result.args.roles) THEN result.args.roles[i]
           ELSE "port" \o ToString(i)

\* C27: the same, the i-th port found having the role roles[i] when roles has
\* an i-th element that is not the empty string, and "port<i+1>" otherwise.
C27_GroupRecordsRoleUnlessEmpty ==
  GroupAllocated =>
    /\ GroupRecordsPersisted
    /\ \A i \in 1..Len(Found) :
         Record(disk, Found[i]).role =
           IF i <= Len(result.args.roles) /\ result.args.roles[i] # ""
           THEN result.args.roles[i]
           ELSE "port" \o ToString(i)

C27_Witness ==
  /\ GroupAllocated
  /\ result.args.count = 2
  /\ result.args.roles = <<"", "b">>
  /\ Keys(result.pre) # {}
  /\ Record(disk, Found[1]).role = "port1"
  /\ Record(disk, Found[2]).role = "b"


\* the ports the last call probed available, in the order of the probes
RECURSIVE AvailableInOrder(_)
AvailableInOrder(probes) ==
  IF probes = <<>> THEN <<>>
  ELSE IF Head(probes).available
       THEN <<Head(probes).port>> \o AvailableInOrder(Tail(probes))
       ELSE AvailableInOrder(Tail(probes))

\* the ports of the default range that the call could take: not keys of the
\* registry it loaded, not reported occupied by a probe
FreeForGroup ==
  {p \in PortsIn(defaultRange) :
     p \notin Keys(result.pre) /\ p \notin ProbedUnavailable}

\* C28: a successful allocateGroup(count, ...) takes the count smallest ports
\* of the default range that are neither keys of the registry nor occupied,
\* having probed every unregistered port below the last one it takes; it
\* finds them in strictly ascending order, the i-th found getting the i-th
\* role.
C28_GroupTakesSmallestFree ==
  GroupAllocated =>
    LET new == Keys(disk) \ Keys(result.pre)
        order == AvailableInOrder(result.probes)
    IN  /\ Cardinality(new) = result.args.count
        /\ new \subseteq FreeForGroup
        /\ \A p \in new, q \in FreeForGroup \ new : p < q
        /\ \A q \in PortsIn(defaultRange) \ Keys(result.pre) :
             (\E p \in new : q <= p) => q \in Probed
        /\ ProbedAvailable = new
        /\ order = Found
        /\ \A i \in 1..Len(order) :
             /\ i > 1 => order[i - 1] < order[i]
             /\ Record(disk, order[i]).role =
                  RoleName(result.args.roles, i - 1)

C28_Witness ==
  /\ GroupAllocated
  /\ result.args.count = 2
  /\ \E q \in ProbedUnavailable : q < Found[2]
  /\ Len(AvailableInOrder(result.probes)) = 2


\* the last call released the group that the call before it had allocated
GroupRoundTrip ==
  /\ result.op = "releaseGroup"
  /\ prev.op = "allocateGroup"
  /\ result.args.groupId = prev.value.groupId

\* C29: a releaseGroup of the group id that the preceding successful
\* allocateGroup returned reports released = count and exactly the ports
\* that call persisted, and leaves the allocations that were there before the
\* allocateGroup.
C29_GroupRoundTrip ==
  GroupRoundTrip =>
    /\ result.value.released = prev.args.count
    /\ result.value.ports = Ascending(Keys(result.pre) \ Keys(prev.pre))
    /\ {result.value.ports[i] : i \in DOMAIN result.value.ports} =
         Members(result.pre, prev.value.groupId)
    /\ Allocs(disk) = Allocs(prev.pre)

C29_Witness ==
  /\ GroupRoundTrip
  /\ prev.args.count = 2
  /\ result.value.released = 2
  /\ Keys(disk) # {}

----------------------------------------------------------------------------
(* getGroups *)

\* the ports listed in a group entry of getGroups
ListedPorts(entry) == {entry.ports[i].port : i \in DOMAIN entry.ports}

\* C30: the result of getGroups() has one entry per group id carried by a
\* record of the registry; the entry of a group lists, once each and with
\* its role, exactly the ports whose record carries that group id; a port
\* whose record has no group id is listed in no entry.
C30_GetGroupsRebuildsGroups ==
  result.op = "getGroups" =>
    /\ DOMAIN result.value = GroupIdsIn(disk)
    /\ \A g \in DOMAIN result.value :
         LET entry == result.value[g]
         IN  /\ entry.groupId = g
             /\ ListedPorts(entry) = Members(disk, g)
             /\ Len(entry.ports) = Cardinality(Members(disk, g))
             /\ \A i \in DOMAIN entry.ports :
                  entry.ports[i].role = Record(disk, entry.ports[i].port).role
    /\ \A p \in Keys(disk) :
         GroupIdOf(Record(disk, p)) = Undefined =>
           \A g \in DOMAIN result.value : p \notin ListedPorts(result.value[g])

C30_Witness ==
  /\ result.op = "getGroups"
  /\ \E g \in DOMAIN result.value : Len(result.value[g].ports) = 2
  /\ \E p \in Keys(disk) : GroupIdOf(Record(disk, p)) = Undefined

----------------------------------------------------------------------------
(* getAllGrouped *)

\* the app and the worktree under which the claim places a record
PlacedApp(info) ==
  IF MetadataOf(info, "app") # Undefined THEN MetadataOf(info, "app")
  ELSE IF MetadataOf(info, "workspace") # Undefined
  THEN MetadataOf(info, "workspace")
  ELSE "default"

PlacedWorktree(info) ==
  IF MetadataOf(info, "worktree") # Undefined
  THEN MetadataOf(info, "worktree")
  ELSE "default"

\* the positions of port in grouped[app][worktree]
PositionsOf(grouped, app, worktree, port) ==
  IF app \in DOMAIN grouped /\ worktree \in DOMAIN grouped[app]
  THEN {i \in DOMAIN grouped[app][worktree] :
          grouped[app][worktree][i].port = port}
  ELSE {}

----------------------------------------------------------------------------
(* detectOccupier command by command *)

Platforms == {"win32", "other"}

\* which of the commands succeed when they are run with something to report:
\* lsof, netstat (the listing on win32, the fallback listing elsewhere) and
\* the name lookup (tasklist, ps)
Commands == [lsof : BOOLEAN, netstat : BOOLEAN, ps : BOOLEAN]

\* netstat piped into findstr or grep: the pid bound to the port; the
\* pipeline fails when the command fails and when no line matches
netstatFinds(s, port, works) == works.netstat /\ port \in Listening(s)

\* lsof -i :port -t -sTCP:LISTEN: the pid bound to the port; lsof fails when
\* it is missing and when nothing listens
lsofFinds(s, port, works) == works.lsof /\ port \in Listening(s)

\* the name lookup inside its own try: the name, or 'unknown'
NamedOrUnknown(s, port, works) ==
  [pid |-> s.listen[port],
   processName |-> IF works.ps THEN comm(s.listen[port]) ELSE "unknown"]

\* detectOccupier(port) on a platform, by the outcome of each command
detectOccupierOn(s, port, platform, works) ==
  IF platform = "win32"
  THEN IF netstatFinds(s, port, works) THEN NamedOrUnknown(s, port, works)
       ELSE Null
  ELSE IF lsofFinds(s, port, works) /\ works.ps
       THEN [pid |-> s.listen[port], processName |-> comm(s.listen[port])]
       ELSE IF netstatFinds(s, port, works)
            THEN NamedOrUnknown(s, port, works)
            ELSE Null

DetectsOn ==
  /\ result.op = "none"
  /\ \E port \in Ports, platform \in Platforms, works \in Commands :
       result' = Query("detectOccupierOn",
                       [port |-> port, platform |-> platform,
                        works |-> works],
                       [value |-> detectOccupierOn(sys, port, platform, works),
                        writes |-> 0])
  /\ UNCHANGED <<disk, defaultRange, clock, uuids, prev, handed, sys,
                 inflight>>

DetectNext == OsListen \/ OsExit \/ DetectsOn \/ QueryReturn

SpecDetect == OsInit /\ [][DetectNext]_vars

\* the first listing the call ran reported the pid bound to the port
PidFound ==
  IF result.args.platform = "win32"
  THEN netstatFinds(sys, result.args.port, result.args.works)
  ELSE lsofFinds(sys, result.args.port, result.args.works)

\* C32: whenever detectOccupier found the pid of the occupier and the name
\* lookup failed, it returns that pid with processName "unknown".
C32_PidFoundIsReturned ==
  (result.op = "detectOccupierOn" /\ PidFound /\ ~result.args.works.ps) =>
    result.value = [pid |-> sys.listen[result.args.port],
                    processName |-> "unknown"]

----------------------------------------------------------------------------
(* Releases and allocations in flight *)

\* C33: the save of an allocate adds to the registry file no port other than
\* the one the call selected: a port that a release removed from the file
\* stays absent.
C33_ReleasedStaysReleased ==
  (result.op = "allocate" /\ result.ok) =>
    Keys(disk) \ Keys(result.pre) \subseteq {result.value}

----------------------------------------------------------------------------
(* reserve that ends in an error *)

\* C34: a reserve that throws leaves the persisted registry as it was
\* before the call.
C34_FailedReserveWritesNothing ==
  (result.op = "reserve" /\ ~result.ok) =>
    loadRegistry(disk) = loadRegistry(result.pre)

----------------------------------------------------------------------------
(* reserve while processes come and go between its awaits *)

\* how many reserve calls are made in a row
MaxReserves == 2

\* A process binds a free port at any time.
StageListen ==
  /\ result.op = "none"
  /\ \E pid \in Pids, port \in Ports \ Listening(sys) :
       sys' = Bind(sys, pid, port)
  /\ UNCHANGED <<disk, defaultRange, clock, uuids, result, prev, handed,
                 inflight>>

\* A listening process ends at any time.
StageExit ==
  /\ result.op = "none"
  /\ \E pid \in sys.alive : sys' = Exit(sys, pid)
  /\ UNCHANGED <<disk, defaultRange, clock, uuids, result, prev, handed,
                 inflight>>

\* reserve(port, {killIfOccupied: true}) up to its first await: const
\* occupier = await this.detectOccupier(port)
ReserveDetects ==
  /\ result.op = "none"
  /\ clock < MaxReserves
  /\ inflight = <<>>
  /\ \E port \in Ports, force \in BOOLEAN, tool \in {"named", "failed"} :
       inflight' = <<[port |-> port,
                      options |-> [killIfOccupied |-> TRUE, force |-> force],
                      occupier |-> detectOccupierOf(sys, port, tool)]>>
  /\ UNCHANGED <<disk, defaultRange, clock, uuids, result, prev, handed, sys>>

\* The rest of the reserve that detected: killOccupier inspects the port
\* again, on the system as it is by then.
ReserveGoesOn ==
  /\ Len(inflight) = 1
  /\ \E tool2 \in {"named", "failed"}, outcome \in Outcomes :
       LET me == inflight[1]
           r == reserveFrom(disk, sys, me.port, me.options, me.occupier,
                            tool2, outcome, clock)
       IN  /\ disk' = r.file
           /\ sys' = r.sys
           /\ result' = OsCall("reserve",
                               [port |-> me.port, options |-> me.options], r)
  /\ inflight' = <<>>
  /\ clock' = clock + 1
  /\ UNCHANGED <<defaultRange, uuids, prev, handed>>

StageNext ==
  \/ StageListen
  \/ StageExit
  \/ ReserveDetects
  \/ ReserveGoesOn
  \/ OsReturn

SpecStages == OsInit /\ [][StageNext]_vars

\* C35: a reserve that terminated a process terminated the occupier it
\* detected and reports.
C35_KillsTheReportedOccupier ==
  (result.op = "reserve" /\ result.kills # <<>>) =>
    \A i \in DOMAIN result.kills : result.kills[i].pid = result.detected.pid


\* C36: a reserve with killIfOccupied that detected an occupier succeeds and
\* records the port whenever the port is available to the operating system
\* by the time of its re-probe.
C36_AvailableAtReprobeSucceeds ==
  (/\ result.op = "reserve"
   /\ KillAsked
   /\ result.detected # Null
   /\ result.args.port \notin Listening(sys)) =>
    result.ok /\ result.args.port \in Keys(disk)

----------------------------------------------------------------------------
(* releaseGroup and records outside any group *)

\* C37: after a releaseGroup, whatever its argument, every record that
\* carries no group id is still in the registry, as it was.
C37_ReleaseGroupKeepsUngrouped ==
  result.op = "releaseGroup" =>
    \A p \in Keys(result.pre) :
      GroupIdOf(Record(result.pre, p)) = Undefined =>
        p \in Keys(disk) /\ Record(disk, p) = Record(result.pre, p)

----------------------------------------------------------------------------
(* The scans of allocate and allocateGroup, probe by probe *)

\* the loop test as it would be without an end of range
PastEndNever(me) == FALSE

\* !(port <= range.end)
PastEnd(me) == me.port > me.range.end

\* registry.allocations[port] || portNumbers.includes(port)
Taken(me) ==
  \/ Has(me.registry.allocations, me.port)
  \/ \E k \in 1..Len(me.portNumbers) : me.portNumbers[k] = me.port

\* The synchronous run of a scan up to its next await: it passes over the
\* ports that are taken and either starts the probe of the first candidate
\* or leaves the loop at the end of the range.
RECURSIVE Advance(_)
Advance(me) ==
  IF PastEnd(me) THEN [me EXCEPT !.pc = "failed"]
  ELSE IF Taken(me) THEN Advance([me EXCEPT !.port = @ + 1])
  ELSE [me EXCEPT !.pc = "probing", !.issued = @ + 1,
                  !.probed = Append(@, me.port)]

\* the most probes the claim allows a scan
ProbeBound(me) ==
  IF me.op = "allocate" THEN me.range.end - me.range.start + 1
  ELSE me.count * (defaultRange.end - defaultRange.start + 1)

\* the record of a scan that has ended
Scanned(me, ok, value, error) ==
  [op |-> me.op, args |-> [range |-> me.range, count |-> me.count],
   range |-> me.range, count |-> me.count, ok |-> ok, value |-> value, error |-> error,
   issued |-> me.issued, answered |-> me.answered, probed |-> me.probed,
   bound |-> ProbeBound(me), pre |-> disk]

\* A scan has run up to an await or to its end: the call in flight, the
\* result and the registry file after it.
Settle(me, file) ==
  /\ inflight' = IF me.pc = "probing" THEN <<me>> ELSE <<>>
  /\ result' =
       IF me.pc = "probing" THEN NoCall
       ELSE IF me.pc = "failed"
       THEN Scanned(me, FALSE, Undefined,
                    IF me.op = "allocate" THEN NoAvailablePorts(me.range)
                    ELSE GroupAllocationFailed(me.count, me.i))
       ELSE Scanned(me, TRUE, me.portNumbers, Undefined)
  /\ disk' = IF me.pc = "done" THEN saveRegistry(me.registry) ELSE file

\* allocate(range) up to its first await
ScanAllocate ==
  /\ result.op = "none"
  /\ inflight = <<>>
  /\ clock < MaxCalls
  /\ \E range \in Ranges :
       Settle(Advance([op |-> "allocate", pc |-> "scan",
                       registry |-> loadRegistry(disk), range |-> range,
                       count |-> 1, i |-> 0, port |-> range.start,
                       portNumbers |-> <<>>, groupId |-> Undefined,
                       issued |-> 0, answered |-> 0, probed |-> <<>>]),
              disk)
  /\ clock' = clock + 1
  /\ UNCHANGED <<defaultRange, uuids, prev, handed, sys>>

\* allocateGroup(count) up to its first await
ScanAllocateGroup ==
  /\ result.op = "none"
  /\ inflight = <<>>
  /\ clock < MaxCalls
  /\ \E count \in 1..MaxCount :
       Settle(Advance([op |-> "allocateGroup", pc |-> "scan",
                       registry |-> loadRegistry(disk),
                       range |-> defaultRange,
                       count |-> count, i |-> 0,
                       port |-> defaultRange.start,
                       portNumbers |-> <<>>, groupId |-> randomUUID(uuids),
                       issued |-> 0, answered |-> 0, probed |-> <<>>]),
              disk)
  /\ uuids' = uuids + 1
  /\ clock' = clock + 1
  /\ UNCHANGED <<defaultRange, prev, handed, sys>>

\* The probe a scan awaits completes, and the scan runs on to its next
\* await or to its end.
ProbeAnswers ==
  /\ Len(inflight) = 1
  /\ \E available \in BOOLEAN :
       LET me == [inflight[1] EXCEPT !.answered = @ + 1]
           info == IF me.op = "allocate"
                   THEN [allocatedAt |-> Timestamp(clock),
                         metadata |-> EmptyObject]
                   ELSE [allocatedAt |-> Timestamp(clock),
                         groupId |-> me.groupId,
                         role |-> RoleName(<<>>, me.i),
                         metadata |-> EmptyObject]
           found == [me EXCEPT
                       !.registry.allocations = Put(@, me.port, info),
                       !.portNumbers = Append(@, me.port),
                       !.i = @ + 1]
       IN  IF ~available
           THEN Settle(Advance([me EXCEPT !.port = @ + 1]), disk)
           ELSE IF found.i >= found.count
           THEN Settle([found EXCEPT !.pc = "done"], disk)
           ELSE Settle(Advance([found EXCEPT !.port = me.range.start]), disk)
  /\ UNCHANGED <<defaultRange, clock, uuids, prev, handed, sys>>

\* The caller takes the result of the scan.
ScanReturn ==
  /\ result.op # "none"
  /\ result' = NoCall
  /\ UNCHANGED <<disk, defaultRange, clock, uuids, prev, handed, sys,
                 inflight>>

ScanNext == ScanAllocate \/ ScanAllocateGroup \/ ProbeAnswers \/ ScanReturn

\* every probe completes
SpecScan == OsInit /\ [][ScanNext]_vars /\ WF_vars(ProbeAnswers)

\* a scan in flight awaits one probe, has started no other, and is within
\* the bound; an allocate has probed no port twice
ScanWithinBound(me) ==
  /\ me.issued <= ProbeBound(me)
  /\ me.issued - me.answered \in {0, 1}
  /\ me.op = "allocate" =>
       \A j, k \in 1..Len(me.probed) : j # k => me.probed[j] # me.probed[k]

ScansWithinBound ==
  /\ Len(inflight) = 1 => ScanWithinBound(inflight[1])
  /\ result.op \in {"allocate", "allocateGroup"} =>
       /\ ScanWithinBound(result)
       /\ result.issued = result.answered

\* C38: a scan never has more than one probe outstanding, allocate starts at
\* most range.end - range.start + 1 probes and none twice on a port,
\* allocateGroup at most count times the size of the default range, and,
\* every probe completing, a scan in flight ends with a result or an error.
C38_ScansAreBoundedAndEnd ==
  /\ []ScansWithinBound
  /\ (Len(inflight) = 1) ~> (result.op \in {"allocate", "allocateGroup"})

C38_Witness ==
  /\ result.op = "allocateGroup"
  /\ ~result.ok
  /\ result.args.count = 2
  /\ result.issued > defaultRange.end - defaultRange.start + 1

====
